---- MODULE Spec2Model ----
(***************************************************************************)
(* VirtuaPlant: the Modbus bridge (tag registry and register store), the  *)
(* attack injector and the physics engines, modelled from                  *)
(* src/sim/common/modbus_bridge.py, src/sim/common/attack_injector.py and  *)
(* src/sim/common/physics.py.                                              *)
(*                                                                         *)
(* The specifications share the variables:                                 *)
(*   SpecLoad   - ModbusBridge.__init__: reading the map rows, loading the *)
(*                IR data, validating, creating the register context;      *)
(*   SpecStore  - get_tag_value / set_tag_value / update_sensors on a      *)
(*                constructed bridge;                                      *)
(*   SpecAttack - AttackInjector: the caller thread (start_attack,         *)
(*                stop_attack) and the worker threads (_run_attack);       *)
(*   SpecPlant  - the simulation loop of src/sim/bottle/plant.py and the   *)
(*                worker threads of the injector, interleaved on one store;*)
(*   SpecTimed  - one attack of each kind on a clock that stands still     *)
(*                while a thread has a statement to run;                   *)
(*   SpecList   - a caller of list_attacks that edits the returned map;    *)
(*   SpecRefinery, SpecBottle - the physics engines driven by update();     *)
(*   SpecTwins  - two engines of one kind given the same calls;            *)
(*   SpecConveyor - a bottle engine under calls whose timestep varies;     *)
(*   SpecPair   - two runs of the simulation loop with the same actuator   *)
(*                writes and different sensor writes;                      *)
(*   SpecRoundTrip - the cycles of src/tools/roundtrip_tests.py: read the  *)
(*                actuators, update the engine, write the sensors.         *)
(***************************************************************************)
EXTENDS Integers, Sequences, FiniteSets, TLC

VARIABLES
    pc,             \* position of ModbusBridge.__init__: "load", "ready", "exited"
    tag_mappings,   \* self.tag_mappings: tag name -> mapping record
    ir_data,        \* self.ir_data
    context,        \* self.context: NoContext, or block name -> address -> value
    nread,          \* rows of the map file read so far
    rowCells,       \* history: the (table, address) pairs of the rows read so far
    rowsCollide,    \* history: two rows read so far declared the same (table, address)
    rowViolation,   \* history: a row read so far breaks the role-by-prefix policy
    last,           \* the last accessor call: operation, arguments and outcome
    lastWrite,      \* history: per cell, the value of the most recent write to it
    now,            \* time.time(), in worker periods of 0.1 s
    active_attacks, \* AttackInjector.active_attacks: attack id -> AttackConfig
    attack_threads, \* AttackInjector.attack_threads: attack id -> thread
    workers,        \* the threads started, in order: each one's _run_attack frame
    mainpc,         \* position of the calling thread
    call,           \* the last call of the calling thread that ended, and how
    ncalls,         \* calls made by the calling thread
    sim,            \* the simulation loop: its position, its locals, the physics
    engine,         \* a physics engine driven tick by tick, and the ticks made
    listed          \* the map list_attacks returned to the caller

bridgeVars == <<pc, tag_mappings, ir_data, context>>
loadHist   == <<nread, rowCells, rowsCollide, rowViolation>>
storeVars  == <<last, lastWrite>>
attackVars == <<now, active_attacks, attack_threads, workers, mainpc, call, ncalls>>
vars       == <<pc, tag_mappings, ir_data, context, nread, rowCells, rowsCollide,
                rowViolation, last, lastWrite, now, active_attacks, attack_threads,
                workers, mainpc, call, ncalls, sim, engine, listed>>
otherVars  == <<engine, listed>>

----------------------------------------------------------------------------
(* Bounds of the model *)

\* rows in a map file
MaxRows == 2
\* register addresses a row may declare: 0..MaxAddr
MaxAddr == 1
\* integer values written to the store: 0..MaxInt
MaxInt == 1
\* worker threads started
MaxWorkers == 2
\* calls of start_attack and stop_attack
MaxCalls == 3
\* worker periods the clock advances
Horizon == 1
\* steps of the simulation loop
MaxSteps == 2
\* the duration of the attacks of SpecTimed, in worker periods
TimedDuration == 2
\* calls of the injector by the caller of list_attacks: one start, then stops
ListCalls == 2
\* update calls on a refinery engine
RefineryUpdates == 2
\* update calls on a bottle engine
BottleUpdates == 402
\* update calls on each of two engines
TwinUpdates == 2
\* update calls on a bottle engine with inputs and timesteps that vary
ConveyorUpdates == 3
\* steps of the simulation loop in each of two runs
PairSteps == 2

----------------------------------------------------------------------------
(* Python values: a bool is kept apart from an int, as type() tells them apart *)

PyInt(n)  == [ty |-> "int", n |-> n]
PyBool(b) == [ty |-> "bool", n |-> IF b THEN 1 ELSE 0]

PyTrue  == PyBool(TRUE)
PyFalse == PyBool(FALSE)

Values == {PyTrue, PyFalse} \cup {PyInt(n) : n \in 0..MaxInt}

----------------------------------------------------------------------------
(* The tag map: rows of maps/<plant>/modbus_map.csv *)

Tables == {"DI", "COIL", "HR", "IR"}
Roles  == {"Sensor", "Actuator", "Command"}
Addrs  == 0..MaxAddr

SensorNames   == {"SENSOR_LIMIT_SWITCH", "SENSOR_LEVEL_SENSOR"}
ActuatorNames == {"ACT_MOTOR", "ACT_NOZZLE"}
CommandNames  == {"CMD_RUN"}
OtherNames    == {"AUX_LAMP"}
TagNames      == SensorNames \cup ActuatorNames \cup CommandNames \cup OtherNames

\* tag_name.startswith(prefix), over the names of the model
StartsWith(tag_name, prefix) ==
    CASE prefix = "SENSOR_" -> tag_name \in SensorNames
      [] prefix = "ACT_"    -> tag_name \in ActuatorNames
      [] prefix = "CMD_"    -> tag_name \in CommandNames
      [] OTHER              -> FALSE

\* The rows a map file is drawn from: BOOL rows in the bit tables, INT rows in
\* the register tables.  width, units and desc are stored and never read.
CsvRows(names) ==
    { [name |-> nm, type |-> IF tb \in {"DI", "COIL"} THEN "BOOL" ELSE "INT",
       table |-> tb, address |-> a, role |-> rl] :
        nm \in names, tb \in Tables, a \in Addrs, rl \in Roles }

\* mappings[tag_name] = {...} for one row: a later row of the same name replaces
\* the earlier one
AddRow(mappings, row) ==
    [t \in DOMAIN mappings \cup {row.name} |->
        IF t = row.name
        THEN [type |-> row.type, table |-> row.table, address |-> row.address,
              role |-> row.role]
        ELSE mappings[t]]

EmptyMappings == [t \in {} |-> [type |-> "BOOL", table |-> "DI", address |-> 0,
                                role |-> "Sensor"]]

RECURSIVE LoadModbusMap(_)
LoadModbusMap(rows) ==
    IF rows = <<>> THEN EmptyMappings
    ELSE AddRow(LoadModbusMap(SubSeq(rows, 1, Len(rows) - 1)), rows[Len(rows)])

----------------------------------------------------------------------------
(* The IR data *)

\* What _load_ir_data can return: None (no IR file), the empty dict, a dict whose
\* components list no tags, a dict listing tags (one mapped, one not)
IRFiles ==
    { [kind |-> "None", tags |-> {}, empty |-> FALSE],
      [kind |-> "dict", tags |-> {}, empty |-> TRUE],
      [kind |-> "dict", tags |-> {}, empty |-> FALSE],
      [kind |-> "dict", tags |-> {"ACT_MOTOR", "PLC_TIMER"}, empty |-> FALSE] }

\* before _load_ir_data has run
IRUnloaded == [kind |-> "None", tags |-> {}, empty |-> FALSE]

\* "not self.ir_data": None and the empty dict are both falsy
IsFalsy(ir) == ir.kind = "None" \/ ir.empty

----------------------------------------------------------------------------
(* Validation *)

ValidateTagRole(tag_name, mapping) ==
    LET role == mapping.role IN
    IF StartsWith(tag_name, "SENSOR_") /\ role # "Sensor" THEN FALSE
    ELSE IF StartsWith(tag_name, "ACT_") /\ role # "Actuator" THEN FALSE
    ELSE IF StartsWith(tag_name, "CMD_") /\ role # "Command" THEN FALSE
    ELSE TRUE

\* a validation that exits when a tag of the IR is missing from the map
ValidateMappingsStrict(mappings, ir) ==
    IF IsFalsy(ir) THEN TRUE
    ELSE /\ ir.tags \subseteq DOMAIN mappings
         /\ \A t \in DOMAIN mappings : ValidateTagRole(t, mappings[t])

\* TRUE: validation returns; FALSE: sys.exit(1).  The tags of the IR missing
\* from the map, and the tags of the map missing from the IR, are printed.
ValidateMappings(mappings, ir) ==
    IF IsFalsy(ir) THEN TRUE
    ELSE \A t \in DOMAIN mappings : ValidateTagRole(t, mappings[t])

----------------------------------------------------------------------------
(* The register context *)

BlockNames == {"di", "co", "hr", "ir"}

\* ModbusSequentialDataBlock(0, [0] * 100)
BlockSize == 100

\* the addresses of the bottle plant's map
BottleAddrs == {0, 1, 2}

\* the addresses of the refinery's map
RefineryAddrs == {0, 1, 2, 3}

\* the cells of a block that an address of the model can name
BlockAddrs == {a \in Addrs \cup BottleAddrs \cup RefineryAddrs : a < BlockSize}

NoContext == [b \in {} |-> [a \in {} |-> PyInt(0)]]

CreateModbusContext == [b \in BlockNames |-> [a \in BlockAddrs |-> PyInt(0)]]

----------------------------------------------------------------------------
(* The accessors *)

\* the data block a table name selects: self.context[0][0]['di'] ...
BlockOf(table) ==
    CASE table = "DI"   -> "di"
      [] table = "COIL" -> "co"
      [] table = "HR"   -> "hr"
      [] table = "IR"   -> "ir"

\* a setValues that spills the value into the next cell of the block
SetValuesSpill(ctx, block, address, value) ==
    [ctx EXCEPT ![block] = [a \in DOMAIN @ |->
                              IF a \in {address, address + 1} THEN value ELSE @[a]]]

\* block.setValues(address, [value])
SetValues(ctx, block, address, value) ==
    [ctx EXCEPT ![block] = [@ EXCEPT ![address] = value]]

\* block.getValues(address, 1)[0]
GetValues(ctx, block, address) == ctx[block][address]

Raised(what)  == [result |-> what, ret |-> PyInt(0)]
Returned(val) == [result |-> "ok", ret |-> val]

\* get_tag_value with the membership test dropped: an unknown name reads as 0
GetTagValueDefault(mappings, ctx, tag_name) ==
    IF tag_name \notin DOMAIN mappings THEN Returned(PyInt(0))
    ELSE Returned(GetValues(ctx, BlockOf(mappings[tag_name].table),
                            mappings[tag_name].address))

\* get_tag_value: the value returned, or the ValueError raised
GetTagValue(mappings, ctx, tag_name) ==
    IF tag_name \notin DOMAIN mappings THEN Raised("Unknown tag")
    ELSE LET table   == mappings[tag_name].table
             address == mappings[tag_name].address
         IN  IF table \notin {"DI", "COIL", "HR", "IR"} THEN Raised("Unknown table")
             ELSE IF table = "DI"   THEN Returned(GetValues(ctx, "di", address))
             ELSE IF table = "COIL" THEN Returned(GetValues(ctx, "co", address))
             ELSE IF table = "HR"   THEN Returned(GetValues(ctx, "hr", address))
             ELSE IF table = "IR"   THEN Returned(GetValues(ctx, "ir", address))
             ELSE Returned(PyInt(0))

\* set_tag_value with the COIL branch writing the holding-register block
SetTagValueWrongBlock(mappings, ctx, tag_name, value) ==
    IF tag_name \notin DOMAIN mappings
    THEN [result |-> "Unknown tag", ctx |-> ctx]
    ELSE LET table   == mappings[tag_name].table
             address == mappings[tag_name].address
         IN  IF table = "COIL"
             THEN [result |-> "ok", ctx |-> SetValues(ctx, "hr", address, value)]
             ELSE IF table = "HR"
             THEN [result |-> "ok", ctx |-> SetValues(ctx, "hr", address, value)]
             ELSE [result |-> "Cannot write to table", ctx |-> ctx]

\* set_tag_value: the context after the call, and "ok" or the ValueError raised
SetTagValue(mappings, ctx, tag_name, value) ==
    IF tag_name \notin DOMAIN mappings
    THEN [result |-> "Unknown tag", ctx |-> ctx]
    ELSE LET table   == mappings[tag_name].table
             address == mappings[tag_name].address
         IN  IF table = "COIL"
             THEN [result |-> "ok", ctx |-> SetValues(ctx, "co", address, value)]
             ELSE IF table = "HR"
             THEN [result |-> "ok", ctx |-> SetValues(ctx, "hr", address, value)]
             ELSE [result |-> "Cannot write to table", ctx |-> ctx]

\* update_sensors with the Input-Register branch missing
UpdateSensorNoIR(mappings, ctx, tag_name, value) ==
    IF tag_name \in DOMAIN mappings /\ mappings[tag_name].table = "DI"
    THEN SetValues(ctx, "di", mappings[tag_name].address, value)
    ELSE ctx

\* update_sensors, one pass of "for tag_name, value in sensor_values.items()"
UpdateSensor(mappings, ctx, tag_name, value) ==
    IF tag_name \in DOMAIN mappings
    THEN LET table   == mappings[tag_name].table
             address == mappings[tag_name].address
         IN  IF table = "DI" THEN SetValues(ctx, "di", address, value)
             ELSE IF table = "IR" THEN SetValues(ctx, "ir", address, value)
             ELSE ctx
    ELSE ctx

\* update_sensors: sensor_values is the dict's items in insertion order
RECURSIVE UpdateSensors(_, _, _)
UpdateSensors(mappings, ctx, sensor_values) ==
    IF sensor_values = <<>> THEN ctx
    ELSE UpdateSensors(mappings,
                       UpdateSensor(mappings, ctx, sensor_values[1][1],
                                    sensor_values[1][2]),
                       Tail(sensor_values))

----------------------------------------------------------------------------
(* History of the rows read, stated from the tag policy and not from the code *)

RowBreaksRolePolicy(row) ==
    \/ row.name \in SensorNames   /\ row.role # "Sensor"
    \/ row.name \in ActuatorNames /\ row.role # "Actuator"
    \/ row.name \in CommandNames  /\ row.role # "Command"

NoCall == [op |-> "none", args |-> <<>>, result |-> "none", ret |-> PyInt(0)]

NoWrites == [c \in {} |-> PyInt(0)]

----------------------------------------------------------------------------
(* The attack injector *)

\* time.sleep(0.1) is the unit of the clock: int(time.time()) changes every 10
TicksPerSecond == 10

\* the clock when the program starts: 0.9 s into a second
FirstTicks == {TicksPerSecond - 1}

\* f"{config.attack_type.value}_{int(time.time())}"
AttackId(config, t) == <<config.attack_type, t \div TicksPerSecond>>

NoConfig == [attack_type |-> "none", target_plant |-> "none", duration |-> 0,
             intensity |-> 0]

\* AttackInjector.__init__, and a calling thread that has called nothing
NoAttacks ==
    /\ now \in FirstTicks
    /\ active_attacks = [i \in {} |-> NoConfig]
    /\ attack_threads = [i \in {} |-> 0]
    /\ workers = <<>>
    /\ mainpc = [at |-> "idle", id |-> <<>>, scenario |-> "none"]
    /\ call = [op |-> "none", id |-> <<>>, result |-> "none"]
    /\ ncalls = 0

\* the rows of the bottle plant's map, maps/bottle/modbus_map.csv: actuators
\* and the command in coils, sensors in discrete inputs
BottleRows ==
    << [name |-> "CMD_RUN", type |-> "BOOL", table |-> "COIL", address |-> 0,
        role |-> "Command"],
       [name |-> "ACT_MOTOR", type |-> "BOOL", table |-> "COIL", address |-> 1,
        role |-> "Actuator"],
       [name |-> "ACT_NOZZLE", type |-> "BOOL", table |-> "COIL", address |-> 2,
        role |-> "Actuator"],
       [name |-> "SENSOR_LIMIT_SWITCH", type |-> "BOOL", table |-> "DI", address |-> 0,
        role |-> "Sensor"],
       [name |-> "SENSOR_LEVEL_SENSOR", type |-> "BOOL", table |-> "DI", address |-> 1,
        role |-> "Sensor"] >>

\* maps/refinery/modbus_map.csv: the tags the refinery engine, plant and
\* patterns name, actuators in coils, sensors in the read-only tables
RefineryRows ==
    << [name |-> "ACT_FEED_PUMP", type |-> "BOOL", table |-> "COIL", address |-> 0,
        role |-> "Actuator"],
       [name |-> "ACT_OUTLET_VALVE", type |-> "BOOL", table |-> "COIL", address |-> 1,
        role |-> "Actuator"],
       [name |-> "ACT_SEP_VALVE", type |-> "BOOL", table |-> "COIL", address |-> 2,
        role |-> "Actuator"],
       [name |-> "ACT_WASTE_VALVE", type |-> "BOOL", table |-> "COIL", address |-> 3,
        role |-> "Actuator"],
       [name |-> "SENSOR_TANK_LEVEL", type |-> "INT", table |-> "IR", address |-> 0,
        role |-> "Sensor"],
       [name |-> "SENSOR_OIL_SPILL", type |-> "INT", table |-> "IR", address |-> 1,
        role |-> "Sensor"],
       [name |-> "SENSOR_OIL_PROCESSED", type |-> "INT", table |-> "IR", address |-> 2,
        role |-> "Sensor"],
       [name |-> "SENSOR_OIL_UPPER", type |-> "BOOL", table |-> "DI", address |-> 0,
        role |-> "Sensor"] >>

\* list(self.tag_mappings.keys()): the names in the rows' order
TagKeys(mappings) ==
    SelectSeq([i \in 1..Len(BottleRows) |-> BottleRows[i].name],
              LAMBDA n : n \in DOMAIN mappings)

\* one store call of a pattern; update_sensors({a: x, b: y}) is its two passes
Set(tag_name, value) == [op |-> "set", tag |-> tag_name, value |-> value]
Upd(tag_name, value) == [op |-> "update", tag |-> tag_name, value |-> value]

\* time.sleep(d) inside a pattern, d in worker periods
Nap(ticks) == [op |-> "nap", ticks |-> ticks]
\* one pass of random_noise's loop over the tags, its draws not yet made
Noise(tag_name) == [op |-> "noise", tag |-> tag_name]
\* a pass of that loop that selects nothing
Skip == [op |-> "skip"]

\* the outcomes of "random.random() < config.intensity", intensity in percent
Chance(intensity) ==
    IF intensity >= 100 THEN {TRUE}
    ELSE IF intensity <= 0 THEN {FALSE}
    ELSE {TRUE, FALSE}

PyBools == {PyTrue, PyFalse}

\* The pattern functions: the store calls one tick makes, in order, for each
\* outcome of its random draws.
AttackNeverStop(config) ==
    IF config.target_plant = "bottle"
    THEN { << Set("CMD_RUN", PyTrue), Set("SENSOR_LIMIT_SWITCH", PyFalse),
              Set("SENSOR_LEVEL_SENSOR", PyFalse), Set("ACT_MOTOR", PyTrue),
              Set("ACT_NOZZLE", PyFalse) >> }
    ELSE IF config.target_plant = "refinery"
    THEN { << Set("ACT_FEED_PUMP", PyTrue), Set("SENSOR_TANK_LEVEL", PyInt(0)),
              Set("SENSOR_OIL_UPPER", PyFalse), Set("ACT_OUTLET_VALVE", PyFalse),
              Set("ACT_WASTE_VALVE", PyFalse) >> }
    ELSE { <<>> }

AttackStopAll(config) ==
    IF config.target_plant = "bottle"
    THEN { << Set("CMD_RUN", PyFalse), Set("ACT_MOTOR", PyFalse),
              Set("ACT_NOZZLE", PyFalse) >> }
    ELSE IF config.target_plant = "refinery"
    THEN { << Set("ACT_FEED_PUMP", PyFalse), Set("ACT_OUTLET_VALVE", PyFalse),
              Set("ACT_SEP_VALVE", PyFalse), Set("ACT_WASTE_VALVE", PyFalse) >> }
    ELSE { <<>> }

AttackConstantRunning(config) ==
    IF config.target_plant = "bottle"
    THEN { << Set("CMD_RUN", PyTrue), Set("ACT_MOTOR", PyTrue) >> }
    ELSE IF config.target_plant = "refinery"
    THEN { << Set("ACT_FEED_PUMP", PyTrue), Set("SENSOR_TANK_LEVEL", PyInt(0)),
              Set("ACT_OUTLET_VALVE", PyFalse), Set("ACT_WASTE_VALVE", PyFalse) >> }
    ELSE { <<>> }

AttackNothingRuns(config) ==
    IF config.target_plant = "bottle" THEN { << Set("CMD_RUN", PyFalse) >> }
    ELSE IF config.target_plant = "refinery"
    THEN { << Set("ACT_FEED_PUMP", PyFalse) >> }
    ELSE { <<>> }

AttackMoveAndFill(config) ==
    IF config.target_plant = "bottle"
    THEN { << Set("CMD_RUN", PyTrue), Set("ACT_MOTOR", PyTrue),
              Set("ACT_NOZZLE", PyTrue) >> }
    ELSE { <<>> }

AttackStopAndFill(config) ==
    IF config.target_plant = "bottle"
    THEN { << Set("CMD_RUN", PyTrue), Set("ACT_MOTOR", PyFalse),
              Set("ACT_NOZZLE", PyTrue) >> }
    ELSE { <<>> }

AttackRunNoSpill(config) ==
    IF config.target_plant = "refinery"
    THEN { << Set("ACT_FEED_PUMP", PyTrue), Set("SENSOR_OIL_SPILL", PyInt(0)) >> }
    ELSE { <<>> }

AttackSensorSpoofing(config) ==
    IF config.target_plant = "bottle"
    THEN UNION { IF hit
                 THEN { << Upd("SENSOR_LIMIT_SWITCH", a), Upd("SENSOR_LEVEL_SENSOR", b) >> :
                          a \in PyBools, b \in PyBools }
                 ELSE { <<>> } : hit \in Chance(config.intensity) }
    ELSE IF config.target_plant = "refinery"
    THEN UNION { IF hit
                 THEN { << Upd("SENSOR_TANK_LEVEL", PyInt(n)) >> : n \in 0..MaxInt }
                 ELSE { <<>> } : hit \in Chance(config.intensity) }
    ELSE { <<>> }

AttackActuatorOverride(config) ==
    IF config.target_plant = "bottle"
    THEN UNION { IF hit
                 THEN { << Set("ACT_MOTOR", a), Set("ACT_NOZZLE", b) >> :
                          a \in PyBools, b \in PyBools }
                 ELSE { <<>> } : hit \in Chance(config.intensity) }
    ELSE IF config.target_plant = "refinery"
    THEN UNION { IF hit
                 THEN { << Set("ACT_FEED_PUMP", a), Set("ACT_OUTLET_VALVE", b) >> :
                          a \in PyBools, b \in PyBools }
                 ELSE { <<>> } : hit \in Chance(config.intensity) }
    ELSE { <<>> }

\* _attack_random_noise: one pass per tag; the draws are made as the pass runs
AttackRandomNoise(config) ==
    { [i \in 1..Len(TagKeys(tag_mappings)) |-> Noise(TagKeys(tag_mappings)[i])] }

\* random.uniform(0.1, 0.5) seconds, in whole worker periods
NapTicks == (TicksPerSecond \div 10)..(TicksPerSecond \div 2)

\* a timing pattern that also writes the run command after its delay
AttackTimingAttackWrites(config) ==
    UNION { IF hit THEN { << Nap(d), Set("CMD_RUN", PyTrue) >> : d \in NapTicks }
            ELSE { <<>> } : hit \in Chance(config.intensity) }

\* _attack_timing_attack: with probability intensity, time.sleep of a random
\* interval
AttackTimingAttack(config) ==
    UNION { IF hit THEN { << Nap(d) >> : d \in NapTicks } ELSE { <<>> } :
              hit \in Chance(config.intensity) }

\* the draws of one pass of random_noise on a tag: not selected, or a
\* set_tag_value of a random value of the tag's type
Draws(o, mappings, config) ==
    IF o.op # "noise" THEN {o}
    ELSE UNION { IF ~hit THEN {Skip}
                 ELSE IF mappings[o.tag].type = "BOOL"
                 THEN { Set(o.tag, v) : v \in PyBools }
                 ELSE IF mappings[o.tag].type = "INT"
                 THEN { Set(o.tag, PyInt(n)) : n \in 0..MaxInt }
                 ELSE {Skip} : hit \in Chance(config.intensity \div 10) }

\* class AttackType
AttackTypes ==
    {"never_stop", "stop_all", "constant_running", "nothing_runs", "move_and_fill",
     "stop_and_fill", "run_no_spill", "sensor_spoofing", "actuator_override",
     "random_noise", "timing_attack"}

\* self.attack_patterns[config.attack_type](config)
AttackPatterns(config) ==
    CASE config.attack_type = "never_stop"        -> AttackNeverStop(config)
      [] config.attack_type = "stop_all"          -> AttackStopAll(config)
      [] config.attack_type = "constant_running"  -> AttackConstantRunning(config)
      [] config.attack_type = "nothing_runs"      -> AttackNothingRuns(config)
      [] config.attack_type = "move_and_fill"     -> AttackMoveAndFill(config)
      [] config.attack_type = "stop_and_fill"     -> AttackStopAndFill(config)
      [] config.attack_type = "run_no_spill"      -> AttackRunNoSpill(config)
      [] config.attack_type = "sensor_spoofing"   -> AttackSensorSpoofing(config)
      [] config.attack_type = "actuator_override" -> AttackActuatorOverride(config)
      [] config.attack_type = "random_noise"      -> AttackRandomNoise(config)
      [] config.attack_type = "timing_attack"     -> AttackTimingAttack(config)

\* a store call whose ValueError restores the store as constructed
ApplyOpRollback(mappings, ctx, o) ==
    IF o.op = "set"
    THEN LET r == SetTagValue(mappings, ctx, o.tag, o.value)
         IN  IF r.result = "ok" THEN r
             ELSE [result |-> r.result, ctx |-> CreateModbusContext]
    ELSE [result |-> "ok", ctx |-> UpdateSensor(mappings, ctx, o.tag, o.value)]

\* one store call of a pattern on the bridge: the context after it and "ok" or
\* the ValueError raised
ApplyOp(mappings, ctx, o) ==
    IF o.op = "set" THEN SetTagValue(mappings, ctx, o.tag, o.value)
    ELSE [result |-> "ok", ctx |-> UpdateSensor(mappings, ctx, o.tag, o.value)]

\* dict insertion and removal
Put(d, k, v) == [i \in DOMAIN d \cup {k} |-> IF i = k THEN v ELSE d[i]]
Del(d, k)    == [i \in DOMAIN d \ {k} |-> d[i]]

----------------------------------------------------------------------------
(* The bottle plant: BottleFillingPhysics and the locals of the simulation    *)
(* loop.  With dt = 0.02, bottle_position is counted in conveyor steps of     *)
(* 0.25 * dt = 0.005 and bottle_level in leak steps of leak_rate * dt =       *)
(* 0.00002.                                                                   *)

PyFloat(n) == [ty |-> "float", n |-> n]

\* the truth value of a Python value
Truthy(v) == v.n # 0

\* dict.get(key, default)
DictGet(d, key, default) == IF key \in DOMAIN d THEN d[key] ELSE default

NoValues == [t \in {} |-> PyInt(0)]

\* BottleFillingPhysics.__init__
NewPhysics ==
    [bottle_level |-> 0, bottle_position |-> 0, water_flow |-> 0,
     bottle_in_position |-> FALSE, bottle_filled |-> FALSE]

\* BottleFillingPhysics.update(dt, inputs), dt in timesteps of 0.02 s: the state
\* after the call
BottleUpdateDt(ph, dt, inputs) ==
    LET motor_on    == Truthy(DictGet(inputs, "ACT_MOTOR", PyFalse))
        nozzle_open == Truthy(DictGet(inputs, "ACT_NOZZLE", PyFalse))
        position    == IF motor_on THEN ph.bottle_position + dt ELSE ph.bottle_position
        filling     == nozzle_open /\ ph.bottle_in_position
        drained     == ph.bottle_level - 50 * dt - dt
        level       == IF filling THEN ph.bottle_level + 100 * dt
                       ELSE IF ph.bottle_level > 0
                       THEN (IF drained > 0 THEN drained ELSE 0)
                       ELSE ph.bottle_level
        off_screen  == position > 120000
    IN  [bottle_level       |-> IF off_screen THEN 0 ELSE level,
         bottle_position    |-> IF off_screen THEN 26000 ELSE position,
         water_flow         |-> IF filling THEN 5000 ELSE 0,
         bottle_in_position |-> (26000 <= position /\ position <= 40000),
         bottle_filled      |-> (level >= 40000)]

\* an update whose conveyor moves 2.5 * dt
BottleUpdateFast(ph, inputs) ==
    LET motor_on    == Truthy(DictGet(inputs, "ACT_MOTOR", PyFalse))
        nozzle_open == Truthy(DictGet(inputs, "ACT_NOZZLE", PyFalse))
        position    == IF motor_on THEN ph.bottle_position + 10 ELSE ph.bottle_position
        filling     == nozzle_open /\ ph.bottle_in_position
        drained     == ph.bottle_level - 50 - 1
        level       == IF filling THEN ph.bottle_level + 100
                       ELSE IF ph.bottle_level > 0
                       THEN (IF drained > 0 THEN drained ELSE 0)
                       ELSE ph.bottle_level
        off_screen  == position > 120000
    IN  [bottle_level       |-> IF off_screen THEN 0 ELSE level,
         bottle_position    |-> IF off_screen THEN 26000 ELSE position,
         water_flow         |-> IF filling THEN 5000 ELSE 0,
         bottle_in_position |-> (26000 <= position /\ position <= 40000),
         bottle_filled      |-> (level >= 40000)]

\* BottleFillingPhysics.update: the state after one timestep
BottleUpdate(ph, inputs) ==
    LET motor_on    == Truthy(DictGet(inputs, "ACT_MOTOR", PyFalse))
        nozzle_open == Truthy(DictGet(inputs, "ACT_NOZZLE", PyFalse))
        position    == IF motor_on THEN ph.bottle_position + 1 ELSE ph.bottle_position
        filling     == nozzle_open /\ ph.bottle_in_position
        drained     == ph.bottle_level - 50 - 1
        level       == IF filling THEN ph.bottle_level + 100
                       ELSE IF ph.bottle_level > 0
                       THEN (IF drained > 0 THEN drained ELSE 0)
                       ELSE ph.bottle_level
        off_screen  == position > 120000
    IN  [bottle_level       |-> IF off_screen THEN 0 ELSE level,
         bottle_position    |-> IF off_screen THEN 26000 ELSE position,
         water_flow         |-> IF filling THEN 5000 ELSE 0,
         bottle_in_position |-> (26000 <= position /\ position <= 40000),
         bottle_filled      |-> (level >= 40000)]

\* the dict BottleFillingPhysics.update returns, in its order
SensorValues(ph) ==
    << <<"SENSOR_LIMIT_SWITCH", PyBool(ph.bottle_in_position)>>,
       <<"SENSOR_LEVEL_SENSOR", PyBool(ph.bottle_filled)>>,
       <<"bottle_level", PyFloat(ph.bottle_level)>>,
       <<"bottle_position", PyFloat(ph.bottle_position)>>,
       <<"water_flow", PyFloat(ph.water_flow)>> >>

----------------------------------------------------------------------------
(* The oil refinery: OilRefineryPhysics.  Volumes are counted in thousandths  *)
(* of a litre and dt in plant timesteps of 0.02 s, so that k_feed * dt is 4,  *)
(* k_processing * dt is 2 and k_relief * dt is 3 per timestep.                *)

\* OilRefineryPhysics.__init__
NewRefinery ==
    [tank_level |-> 20000, oil_spilled |-> 0, oil_processed |-> 0,
     processing_phase |-> 0, tank_capacity |-> 100000]

Min(a, b) == IF a < b THEN a ELSE b
Max(a, b) == IF a > b THEN a ELSE b

\* an update that empties the tank without the floor at zero
RefineryUpdateNoFloor(ph, dt, inputs) ==
    LET feed_pump_on      == Truthy(DictGet(inputs, "ACT_FEED_PUMP", PyFalse))
        outlet_valve_open == Truthy(DictGet(inputs, "ACT_OUTLET_VALVE", PyFalse))
        sep_valve_open    == Truthy(DictGet(inputs, "ACT_SEP_VALVE", PyFalse))
        waste_valve_open  == Truthy(DictGet(inputs, "ACT_WASTE_VALVE", PyFalse))
        fed          == IF feed_pump_on
                        THEN Min(ph.tank_capacity, ph.tank_level + 4 * dt)
                        ELSE ph.tank_level
        processing   == ph.processing_phase = 2 /\ outlet_valve_open /\ sep_valve_open
        emptying     == ph.processing_phase = 3 /\ waste_valve_open
        process_rate == Min(2 * dt, fed)
        level        == IF processing THEN fed - process_rate
                        ELSE IF emptying THEN fed - 3 * dt
                        ELSE fed
        phase        == IF ph.processing_phase = 1 /\ fed >= 80000 THEN 2
                        ELSE IF emptying /\ level <= 20000 THEN 0
                        ELSE ph.processing_phase
        spilling     == level > ph.tank_capacity
    IN  [tank_level       |-> IF spilling THEN ph.tank_capacity ELSE level,
         oil_spilled      |-> IF spilling THEN ph.oil_spilled + (level - ph.tank_capacity)
                              ELSE ph.oil_spilled,
         oil_processed    |-> IF processing THEN ph.oil_processed + process_rate
                              ELSE ph.oil_processed,
         processing_phase |-> phase,
         tank_capacity    |-> ph.tank_capacity]

\* OilRefineryPhysics.update: the state after one timestep of length dt
RefineryUpdate(ph, dt, inputs) ==
    LET feed_pump_on      == Truthy(DictGet(inputs, "ACT_FEED_PUMP", PyFalse))
        outlet_valve_open == Truthy(DictGet(inputs, "ACT_OUTLET_VALVE", PyFalse))
        sep_valve_open    == Truthy(DictGet(inputs, "ACT_SEP_VALVE", PyFalse))
        waste_valve_open  == Truthy(DictGet(inputs, "ACT_WASTE_VALVE", PyFalse))
        fed          == IF feed_pump_on
                        THEN Min(ph.tank_capacity, ph.tank_level + 4 * dt)
                        ELSE ph.tank_level
        processing   == ph.processing_phase = 2 /\ outlet_valve_open /\ sep_valve_open
        emptying     == ph.processing_phase = 3 /\ waste_valve_open
        process_rate == Min(2 * dt, fed)
        level        == IF processing THEN fed - process_rate
                        ELSE IF emptying THEN Max(0, fed - 3 * dt)
                        ELSE fed
        phase        == IF ph.processing_phase = 1 /\ fed >= 80000 THEN 2
                        ELSE IF emptying /\ level <= 20000 THEN 0
                        ELSE ph.processing_phase
        spilling     == level > ph.tank_capacity
    IN  [tank_level       |-> IF spilling THEN ph.tank_capacity ELSE level,
         oil_spilled      |-> IF spilling THEN ph.oil_spilled + (level - ph.tank_capacity)
                              ELSE ph.oil_spilled,
         oil_processed    |-> IF processing THEN ph.oil_processed + process_rate
                              ELSE ph.oil_processed,
         processing_phase |-> phase,
         tank_capacity    |-> ph.tank_capacity]

\* the dict OilRefineryPhysics.update returns: int() of the percentage and of
\* the litres
RefinerySensors(ph) ==
    [SENSOR_TANK_LEVEL    |-> PyInt((ph.tank_level * 100) \div ph.tank_capacity),
     SENSOR_OIL_SPILL     |-> PyInt(ph.oil_spilled \div 1000),
     SENSOR_OIL_PROCESSED |-> PyInt(ph.oil_processed \div 1000),
     SENSOR_OIL_UPPER     |-> PyBool(ph.tank_level > 90000),
     tank_level           |-> PyFloat(ph.tank_level),
     oil_spilled          |-> PyFloat(ph.oil_spilled),
     oil_processed        |-> PyFloat(ph.oil_processed),
     processing_phase     |-> PyInt(ph.processing_phase)]

\* the items of that dict, in its order
RefinerySensorValues(ph) ==
    LET r == RefinerySensors(ph) IN
    << <<"SENSOR_TANK_LEVEL", r.SENSOR_TANK_LEVEL>>,
       <<"SENSOR_OIL_SPILL", r.SENSOR_OIL_SPILL>>,
       <<"SENSOR_OIL_PROCESSED", r.SENSOR_OIL_PROCESSED>>,
       <<"SENSOR_OIL_UPPER", r.SENSOR_OIL_UPPER>>,
       <<"tank_level", r.tank_level>>,
       <<"oil_spilled", r.oil_spilled>>,
       <<"oil_processed", r.oil_processed>>,
       <<"processing_phase", r.processing_phase>> >>

\* no engine is driven apart from the plant's own
NoEngine == [plant |-> "none"]

\* list_attacks has not been called
NotListed == [called |-> FALSE]

\* BottleFillingPlant.__init__: the loop has made no step
NewPlant ==
    [pc |-> "read", k |-> 0, actuator_values |-> NoValues, sensor_values |-> <<>>,
     physics |-> NewPhysics, steps |-> 0]

----------------------------------------------------------------------------
(* SpecLoad: ModbusBridge.__init__ *)

LoadNames == {"SENSOR_LIMIT_SWITCH", "ACT_MOTOR", "CMD_RUN", "AUX_LAMP"}

LoadInit ==
    /\ pc = "load"
    /\ tag_mappings = EmptyMappings
    /\ ir_data = IRUnloaded
    /\ context = NoContext
    /\ nread = 0
    /\ rowCells = {}
    /\ rowsCollide = FALSE
    /\ rowViolation = FALSE
    /\ last = NoCall
    /\ lastWrite = NoWrites
    /\ sim = NewPlant
    /\ engine = NoEngine
    /\ listed = NotListed
    /\ NoAttacks

\* _load_modbus_map, one pass of "for row in reader"
ReadRow ==
    /\ pc = "load"
    /\ nread < MaxRows
    /\ \E row \in CsvRows(LoadNames) :
        /\ tag_mappings' = AddRow(tag_mappings, row)
        /\ rowCells' = rowCells \cup {<<row.table, row.address>>}
        /\ rowsCollide' = (rowsCollide \/ <<row.table, row.address>> \in rowCells)
        /\ rowViolation' = (rowViolation \/ RowBreaksRolePolicy(row))
    /\ nread' = nread + 1
    /\ UNCHANGED <<otherVars, sim, pc, ir_data, context, storeVars, attackVars>>

\* the end of the file: _load_ir_data, _validate_mappings, _create_modbus_context
FinishInit ==
    /\ pc = "load"
    /\ \E ir \in IRFiles :
        /\ ir_data' = ir
        /\ IF ValidateMappings(tag_mappings, ir)
           THEN /\ pc' = "ready"
                /\ context' = CreateModbusContext
           ELSE /\ pc' = "exited"        \* sys.exit(1)
                /\ context' = context
    /\ UNCHANGED <<otherVars, sim, tag_mappings, loadHist, storeVars, attackVars>>

LoadNext == ReadRow \/ FinishInit

SpecLoad == LoadInit /\ [][LoadNext]_vars

----------------------------------------------------------------------------
(* History of the writes, stated from the accessor contract and not from the *)
(* code: per cell, the value of the most recent write to it.                 *)

CellOf(mapping) == <<BlockOf(mapping.table), mapping.address>>

\* a cell whose last write the contract and the code may see differently
Undetermined == [ty |-> "undetermined", n |-> 0]

Record(hist, cell, value) ==
    [c \in DOMAIN hist \cup {cell} |-> IF c = cell THEN value ELSE hist[c]]

\* write(t, v): recorded for a registered Coil or HoldingRegister tag
RecordSet(hist, mappings, tag_name, value) ==
    IF tag_name \in DOMAIN mappings /\ mappings[tag_name].table \in {"COIL", "HR"}
    THEN Record(hist, CellOf(mappings[tag_name]), value)
    ELSE hist

\* update_sensors({t: v}): recorded for a registered Discrete-Input or
\* Input-Register tag; for a Coil or HoldingRegister tag the cell is undetermined
RecordUpdate(hist, mappings, tag_name, value) ==
    IF tag_name \notin DOMAIN mappings THEN hist
    ELSE IF mappings[tag_name].table \in {"DI", "IR"}
    THEN Record(hist, CellOf(mappings[tag_name]), value)
    ELSE Record(hist, CellOf(mappings[tag_name]), Undetermined)

RECURSIVE RecordUpdates(_, _, _)
RecordUpdates(hist, mappings, sensor_values) ==
    IF sensor_values = <<>> THEN hist
    ELSE RecordUpdates(RecordUpdate(hist, mappings, sensor_values[1][1],
                                    sensor_values[1][2]),
                       mappings, Tail(sensor_values))

\* the write history after the call
RecordOp(hist, mappings, o) ==
    IF o.op = "set" THEN RecordSet(hist, mappings, o.tag, o.value)
    ELSE RecordUpdate(hist, mappings, o.tag, o.value)

\* what a read of the tag has to return after the writes recorded
Expected(hist, mapping) ==
    IF CellOf(mapping) \in DOMAIN hist THEN hist[CellOf(mapping)] ELSE PyInt(0)

----------------------------------------------------------------------------
(* SpecStore: the accessors on a constructed bridge *)

StoreNames == {"ACT_MOTOR", "SENSOR_LIMIT_SWITCH"}

\* the names the callers pass: the names of the map and one that no map holds
CallNames == StoreNames \cup {"NO_SUCH_TAG"}

\* the IR file of the bridges of SpecStore and SpecAttack
PlantIR == [kind |-> "dict", tags |-> {"ACT_MOTOR", "PLC_TIMER"}, empty |-> FALSE]

SeqsUpTo(S, n) == UNION {[1..k -> S] : k \in 0..n}

\* the sensor_values dicts passed to update_sensors: one entry, or two entries
\* of different keys (the first of them True)
SensorMaps ==
    { <<<<t, v>>>> : t \in CallNames, v \in Values }
    \cup { m \in { <<<<t, PyTrue>>, <<u, w>>>> : t \in StoreNames, u \in StoreNames,
                                                w \in Values } :
             m[1][1] # m[2][1] }

\* a bridge constructed from a map of role-compliant rows
StoreInit ==
    /\ pc = "ready"
    /\ ir_data = PlantIR
    /\ \E rows \in SeqsUpTo({r \in CsvRows(StoreNames) : ~RowBreaksRolePolicy(r)}, MaxRows) :
        /\ tag_mappings = LoadModbusMap(rows)
        /\ ValidateMappings(tag_mappings, ir_data)
    /\ context = CreateModbusContext
    /\ nread = 0
    /\ rowCells = {}
    /\ rowsCollide = FALSE
    /\ rowViolation = FALSE
    /\ last = NoCall
    /\ lastWrite = NoWrites
    /\ sim = NewPlant
    /\ engine = NoEngine
    /\ listed = NotListed
    /\ NoAttacks

CallGet ==
    /\ pc = "ready"
    /\ \E tag_name \in CallNames :
        LET r == GetTagValue(tag_mappings, context, tag_name) IN
        last' = [op |-> "get", args |-> <<<<tag_name, PyInt(0)>>>>,
                 result |-> r.result, ret |-> r.ret]
    /\ UNCHANGED <<otherVars, sim, bridgeVars, loadHist, lastWrite, attackVars>>

CallSet ==
    /\ pc = "ready"
    /\ \E tag_name \in CallNames, value \in Values :
        LET r == SetTagValue(tag_mappings, context, tag_name, value) IN
        /\ context' = r.ctx
        /\ last' = [op |-> "set", args |-> <<<<tag_name, value>>>>,
                    result |-> r.result, ret |-> PyInt(0)]
        /\ lastWrite' = RecordSet(lastWrite, tag_mappings, tag_name, value)
    /\ UNCHANGED <<otherVars, sim, pc, tag_mappings, ir_data, loadHist, attackVars>>

CallUpdate ==
    /\ pc = "ready"
    /\ \E sensor_values \in SensorMaps :
        /\ context' = UpdateSensors(tag_mappings, context, sensor_values)
        /\ last' = [op |-> "update", args |-> sensor_values, result |-> "ok",
                    ret |-> PyInt(0)]
        /\ lastWrite' = RecordUpdates(lastWrite, tag_mappings, sensor_values)
    /\ UNCHANGED <<otherVars, sim, pc, tag_mappings, ir_data, loadHist, attackVars>>

StoreNext == CallGet \/ CallSet \/ CallUpdate

SpecStore == StoreInit /\ [][StoreNext]_vars

----------------------------------------------------------------------------
(* SpecAttack: the calling thread and the worker threads of the injector on   *)
(* the bottle plant's bridge.  A step is one statement of one thread.         *)

\* the AttackConfigs the calling thread starts: NeverStop with the default
\* duration of 60 s, NothingRuns for 0.1 s or for 60 s
AttackConfigs ==
    { [attack_type |-> "never_stop", target_plant |-> "bottle",
       duration |-> 60 * TicksPerSecond, intensity |-> 100] }
    \cup { [attack_type |-> "nothing_runs", target_plant |-> "bottle", duration |-> d,
            intensity |-> 100] : d \in {1, 60 * TicksPerSecond} }

\* an id that start_attack has not returned
StrayId == <<"nothing_runs", 0>>

\* ModbusBridge("bottle") constructed, AttackInjector(bridge) constructed
StoreOf(rows) ==
    /\ pc = "ready"
    /\ ir_data = PlantIR
    /\ tag_mappings = LoadModbusMap(rows)
    /\ ValidateMappings(tag_mappings, ir_data)
    /\ context = CreateModbusContext
    /\ nread = 0
    /\ rowCells = {}
    /\ rowsCollide = FALSE
    /\ rowViolation = FALSE
    /\ last = NoCall
    /\ lastWrite = NoWrites
    /\ sim = NewPlant
    /\ listed = NotListed

BottleStore == StoreOf(BottleRows)

\* no physics engine is driven apart from the plant's own
BottleBridge == BottleStore /\ engine = NoEngine

AttackInit == BottleBridge /\ NoAttacks

NewWorker(attack_id, config) ==
    [id |-> attack_id, config |-> config, pc |-> "begin", start_time |-> 0,
     todo |-> <<>>, wake |-> 0, cancelled |-> FALSE]

\* a thread that has ended keeps no frame
Ended(wk, how) ==
    [wk EXCEPT !.pc = how, !.config = NoConfig, !.start_time = 0, !.todo = <<>>,
               !.wake = 0, !.cancelled = FALSE]

\* the loop is left for the finally clause: start_time, config and the
\* pattern's calls are read no more
LeftLoop(wk) ==
    [wk EXCEPT !.pc = "finally", !.config = NoConfig, !.start_time = 0,
               !.todo = <<>>, !.cancelled = FALSE]

\* start_attack(config) up to thread.start(): the id, the membership test, the
\* insertion.  The ValueError ends run_scenario when a scenario is the caller.
StartCall(config, scenario) ==
    LET attack_id == AttackId(config, now) IN
    /\ IF attack_id \in DOMAIN active_attacks
       THEN /\ call' = [op |-> "start_attack", id |-> attack_id,
                        result |-> "already running"]
            /\ mainpc' = IF scenario = "none" THEN mainpc
                         ELSE [mainpc EXCEPT !.at = "raised", !.scenario = scenario]
            /\ UNCHANGED <<active_attacks, workers>>
       ELSE /\ active_attacks' = Put(active_attacks, attack_id, config)
            /\ workers' = Append(workers, NewWorker(attack_id, config))
            /\ mainpc' = [mainpc EXCEPT !.at = "start_ret", !.id = attack_id,
                                        !.scenario = scenario]
            /\ call' = [op |-> "start_attack", id |-> attack_id, result |-> "running"]
    /\ ncalls' = ncalls + 1
    /\ UNCHANGED <<otherVars, sim, bridgeVars, loadHist, storeVars, now, attack_threads>>

\* start_attack without the test "if attack_id in self.active_attacks"
StartAttackNoCheck ==
    /\ mainpc.at = "idle"
    /\ ncalls < MaxCalls
    /\ Len(workers) < MaxWorkers
    /\ \E config \in AttackConfigs :
        LET attack_id == AttackId(config, now) IN
        /\ active_attacks' = Put(active_attacks, attack_id, config)
        /\ workers' = Append(workers, NewWorker(attack_id, config))
        /\ mainpc' = [mainpc EXCEPT !.at = "start_ret", !.id = attack_id]
        /\ call' = [op |-> "start_attack", id |-> attack_id, result |-> "running"]
    /\ ncalls' = ncalls + 1
    /\ UNCHANGED <<otherVars, sim, bridgeVars, loadHist, storeVars, now, attack_threads>>

\* a call of start_attack by the calling thread
StartAttack ==
    /\ mainpc.at = "idle"
    /\ ncalls < MaxCalls
    /\ \E config \in AttackConfigs :
        /\ AttackId(config, now) \notin DOMAIN active_attacks => Len(workers) < MaxWorkers
        /\ StartCall(config, "none")

\* start_attack from self.attack_threads[attack_id] = thread to the return
StartReturn ==
    /\ mainpc.at = "start_ret"
    /\ attack_threads' = Put(attack_threads, mainpc.id, Len(workers))
    /\ call' = [op |-> "start_attack", id |-> mainpc.id, result |-> "ok"]
    /\ mainpc' = [mainpc EXCEPT !.at = "idle", !.id = <<>>]
    /\ UNCHANGED <<otherVars, sim, bridgeVars, loadHist, storeVars, now, active_attacks, workers, ncalls>>

\* the ids start_attack has returned: the calling thread is between calls
ReturnedIds(ws) == {ws[w].id : w \in DOMAIN ws}

\* stop_attack(attack_id): "if attack_id in self.active_attacks"
StopCall(attack_id) ==
    /\ IF attack_id \in DOMAIN active_attacks
       THEN /\ mainpc' = [mainpc EXCEPT !.at = "stop_del", !.id = attack_id]
            /\ call' = [op |-> "stop_attack", id |-> attack_id, result |-> "running"]
       ELSE /\ call' = [op |-> "stop_attack", id |-> attack_id, result |-> "not found"]
            /\ UNCHANGED mainpc
    /\ ncalls' = ncalls + 1
    /\ UNCHANGED <<otherVars, sim, bridgeVars, loadHist, storeVars, now, active_attacks, attack_threads,
                   workers>>

\* a call of stop_attack by the calling thread
StopAttack ==
    /\ mainpc.at = "idle"
    /\ ncalls < MaxCalls
    /\ \E attack_id \in ReturnedIds(workers) \cup {StrayId} : StopCall(attack_id)

\* the workers that run for an attack id and have not ended
Cancel(ws, attack_id) ==
    [w \in DOMAIN ws |->
        IF ws[w].id = attack_id /\ ws[w].pc \notin {"done", "crashed"}
        THEN [ws[w] EXCEPT !.cancelled = TRUE] ELSE ws[w]]

\* stop_attack: "del self.active_attacks[attack_id]"
StopDelete ==
    /\ mainpc.at = "stop_del"
    /\ IF mainpc.id \in DOMAIN active_attacks
       THEN /\ active_attacks' = Del(active_attacks, mainpc.id)
            /\ workers' = Cancel(workers, mainpc.id)
            /\ call' = [op |-> "stop_attack", id |-> mainpc.id, result |-> "stopped"]
       ELSE /\ call' = [op |-> "stop_attack", id |-> mainpc.id, result |-> "KeyError"]
            /\ UNCHANGED <<active_attacks, workers>>
    /\ mainpc' = [mainpc EXCEPT !.at = "idle", !.id = <<>>]
    /\ UNCHANGED <<otherVars, sim, bridgeVars, loadHist, storeVars, now, attack_threads, ncalls>>

\* _run_attack: "start_time = time.time()"
WorkerBegin(w) ==
    /\ workers[w].pc = "begin"
    /\ workers' = [workers EXCEPT ![w].start_time = now, ![w].pc = "check"]
    /\ UNCHANGED <<otherVars, sim, bridgeVars, loadHist, storeVars, now, active_attacks, attack_threads,
                   mainpc, call, ncalls>>

\* the loop test of _run_attack
Running(wk, actives, t) ==
    wk.id \in DOMAIN actives /\ t - wk.start_time < wk.config.duration

\* _run_attack: the "while" test; a pass begins with the pattern's draws made
WorkerCheck(w) ==
    /\ workers[w].pc = "check"
    /\ IF Running(workers[w], active_attacks, now)
       THEN \E run \in AttackPatterns(workers[w].config) :
                workers' = [workers EXCEPT ![w].pc = "pattern", ![w].todo = run]
       ELSE workers' = [workers EXCEPT ![w] = LeftLoop(@)]
    /\ UNCHANGED <<otherVars, sim, bridgeVars, loadHist, storeVars, now, active_attacks, attack_threads,
                   mainpc, call, ncalls>>

\* _run_attack: the next store call of the pattern; a ValueError ends the loop
\* in the except clause; after the last call, time.sleep(0.1)
WorkerPattern(w) ==
    /\ workers[w].pc = "pattern"
    /\ IF workers[w].todo = <<>>
       THEN /\ workers' = [workers EXCEPT ![w].pc = "sleep", ![w].wake = now + 1]
            /\ UNCHANGED <<context, lastWrite>>
       ELSE IF Head(workers[w].todo).op = "nap"
       THEN /\ workers' = [workers EXCEPT ![w].pc = "nap", ![w].todo = Tail(@),
                                          ![w].wake = now + Head(workers[w].todo).ticks]
            /\ UNCHANGED <<context, lastWrite>>
       ELSE \E o \in Draws(Head(workers[w].todo), tag_mappings, workers[w].config) :
            IF o.op = "skip"
            THEN /\ workers' = [workers EXCEPT ![w].todo = Tail(@)]
                 /\ UNCHANGED <<context, lastWrite>>
            ELSE LET r == ApplyOp(tag_mappings, context, o)
                 IN  /\ context' = r.ctx
                     /\ lastWrite' = RecordOp(lastWrite, tag_mappings, o)
                     /\ workers' = IF r.result = "ok"
                                   THEN [workers EXCEPT ![w].todo = Tail(@)]
                                   ELSE [workers EXCEPT ![w] = LeftLoop(@)]
    /\ UNCHANGED <<otherVars, sim, pc, tag_mappings, ir_data, loadHist, last, now, active_attacks,
                   attack_threads, mainpc, call, ncalls>>

\* time.sleep(0.1) returns
WorkerWake(w) ==
    /\ workers[w].pc = "sleep"
    /\ now >= workers[w].wake
    /\ workers' = [workers EXCEPT ![w].pc = "check", ![w].wake = 0]
    /\ UNCHANGED <<otherVars, sim, bridgeVars, loadHist, storeVars, now, active_attacks, attack_threads,
                   mainpc, call, ncalls>>

\* the time.sleep of a timing_attack pattern returns
WorkerNap(w) ==
    /\ workers[w].pc = "nap"
    /\ now >= workers[w].wake
    /\ workers' = [workers EXCEPT ![w].pc = "pattern", ![w].wake = 0]
    /\ UNCHANGED <<otherVars, sim, bridgeVars, loadHist, storeVars, now, active_attacks,
                   attack_threads, mainpc, call, ncalls>>

\* finally: "if attack_id in self.active_attacks"
WorkerFinally(w) ==
    /\ workers[w].pc = "finally"
    /\ workers' = [workers EXCEPT ![w] =
                      IF workers[w].id \in DOMAIN active_attacks
                      THEN [@ EXCEPT !.pc = "del"] ELSE Ended(@, "done")]
    /\ UNCHANGED <<otherVars, sim, bridgeVars, loadHist, storeVars, now, active_attacks, attack_threads,
                   mainpc, call, ncalls>>

\* a cleanup that empties the active set
WorkerDeleteAll(w) ==
    /\ workers[w].pc = "del"
    /\ active_attacks' = [i \in {} |-> NoConfig]
    /\ workers' = [workers EXCEPT ![w] = Ended(@, "done")]
    /\ UNCHANGED <<otherVars, sim, bridgeVars, loadHist, storeVars, now, attack_threads,
                   mainpc, call, ncalls>>

\* finally: "del self.active_attacks[attack_id]"; a KeyError ends the thread
WorkerDelete(w) ==
    /\ workers[w].pc = "del"
    /\ IF workers[w].id \in DOMAIN active_attacks
       THEN /\ active_attacks' = Del(active_attacks, workers[w].id)
            /\ workers' = [workers EXCEPT ![w] = Ended(@, "done")]
       ELSE /\ workers' = [workers EXCEPT ![w] = Ended(@, "crashed")]
            /\ UNCHANGED active_attacks
    /\ UNCHANGED <<otherVars, sim, bridgeVars, loadHist, storeVars, now, attack_threads, mainpc, call,
                   ncalls>>

\* time passes
Advance ==
    /\ \A t \in FirstTicks : now < t + Horizon
    /\ now' = now + 1
    /\ UNCHANGED <<otherVars, sim, bridgeVars, loadHist, storeVars, active_attacks, attack_threads,
                   workers, mainpc, call, ncalls>>

\* one statement of one worker thread
BeginStep   == \E w \in DOMAIN workers : WorkerBegin(w)
CheckStep   == \E w \in DOMAIN workers : WorkerCheck(w)
PatternStep == \E w \in DOMAIN workers : WorkerPattern(w)
WakeStep    == \E w \in DOMAIN workers : WorkerWake(w)
NapStep     == \E w \in DOMAIN workers : WorkerNap(w)
FinallyStep == \E w \in DOMAIN workers : WorkerFinally(w)
DeleteStep  == \E w \in DOMAIN workers : WorkerDelete(w)

AttackNext ==
    \/ StartAttack
    \/ StartReturn
    \/ StopAttack
    \/ StopDelete
    \/ BeginStep
    \/ CheckStep
    \/ PatternStep
    \/ WakeStep
    \/ FinallyStep
    \/ DeleteStep
    \/ Advance

SpecAttack == AttackInit /\ [][AttackNext]_vars

----------------------------------------------------------------------------
(* SpecPlant: the simulation loop of the bottle plant and the worker threads  *)
(* of the injector on the same bridge.  A step of the loop is one store       *)
(* access of _simulation_step, with the statements around it that touch only  *)
(* the loop's own locals.                                                     *)

\* AttackManager._define_scenarios: the scenarios whose first attack targets
\* the bottle plant; seconds in worker periods, intensities in percent
AttackScenarios ==
    [bottle_chaos |->
        << [attack_type |-> "never_stop", target_plant |-> "bottle",
            duration |-> 30 * TicksPerSecond, intensity |-> 100],
           [attack_type |-> "sensor_spoofing", target_plant |-> "bottle",
            duration |-> 30 * TicksPerSecond, intensity |-> 50] >>,
     actuator_chaos |->
        << [attack_type |-> "actuator_override", target_plant |-> "bottle",
            duration |-> 40 * TicksPerSecond, intensity |-> 60],
           [attack_type |-> "actuator_override", target_plant |-> "refinery",
            duration |-> 40 * TicksPerSecond, intensity |-> 60] >>]

PlantInit == BottleBridge /\ NoAttacks

\* AttackManager.run_scenario: one pass of "for config in
\* self.attack_scenarios[scenario_name]", up to thread.start()
RunScenario ==
    /\ mainpc.at = "idle"
    /\ \E name \in (IF mainpc.scenario = "none" THEN DOMAIN AttackScenarios
                     ELSE {mainpc.scenario}) :
        /\ ncalls < Len(AttackScenarios[name])
        /\ StartCall(AttackScenarios[name][ncalls + 1], name)

\* get_actuator_values: the tags "for tag_name, mapping in
\* self.tag_mappings.items()" visits with role Actuator, in the rows' order
ActuatorTags(mappings) ==
    SelectSeq([i \in 1..Len(BottleRows) |-> BottleRows[i].name],
              LAMBDA n : n \in DOMAIN mappings /\ mappings[n].role = "Actuator")

\* update_sensors: the entries from the first one whose name is in the registry
RECURSIVE Pending(_, _)
Pending(mappings, sensor_values) ==
    IF sensor_values = <<>> \/ sensor_values[1][1] \in DOMAIN mappings
    THEN sensor_values
    ELSE Pending(mappings, Tail(sensor_values))

\* _simulation_step has returned and asyncio.sleep(self.dt) with it
NextStep(s) ==
    [s EXCEPT !.pc = "read", !.k = 0, !.actuator_values = NoValues,
              !.sensor_values = <<>>, !.steps = @ + 1]

\* get_actuator_values: one pass of its loop, a get_tag_value
SimRead ==
    /\ sim.pc = "read"
    /\ sim.steps < MaxSteps
    /\ sim.k < Len(ActuatorTags(tag_mappings))
    /\ LET tag_name == ActuatorTags(tag_mappings)[sim.k + 1]
           r == GetTagValue(tag_mappings, context, tag_name)
       IN  sim' = IF r.result = "ok"
                  THEN [sim EXCEPT !.k = @ + 1,
                                   !.actuator_values = Put(@, tag_name, r.ret)]
                  ELSE [sim EXCEPT !.pc = "raised"]
    /\ UNCHANGED <<otherVars, bridgeVars, loadHist, storeVars, attackVars>>

\* self.physics.update(self.dt, actuator_values)
SimPhysics ==
    /\ sim.pc = "read"
    /\ sim.steps < MaxSteps
    /\ sim.k = Len(ActuatorTags(tag_mappings))
    /\ LET ph == BottleUpdate(sim.physics, sim.actuator_values)
           todo == Pending(tag_mappings, SensorValues(ph))
       IN  sim' = IF todo = <<>>
                  THEN NextStep([sim EXCEPT !.physics = ph])
                  ELSE [sim EXCEPT !.pc = "update", !.physics = ph,
                                   !.sensor_values = todo]
    /\ UNCHANGED <<otherVars, bridgeVars, loadHist, storeVars, attackVars>>

\* an update_sensors whose pass also switches the motor coil off
SimUpdateResets ==
    /\ sim.pc = "update"
    /\ LET e == Head(sim.sensor_values)
           todo == Pending(tag_mappings, Tail(sim.sensor_values))
       IN  /\ context' = SetValues(UpdateSensor(tag_mappings, context, e[1], e[2]),
                                   "co", tag_mappings["ACT_MOTOR"].address, PyFalse)
           /\ lastWrite' = RecordUpdate(lastWrite, tag_mappings, e[1], e[2])
           /\ sim' = IF todo = <<>> THEN NextStep(sim)
                     ELSE [sim EXCEPT !.sensor_values = todo]
    /\ UNCHANGED <<otherVars, pc, tag_mappings, ir_data, loadHist, last, attackVars>>

\* update_sensors: one pass of its loop on a name of the registry
SimUpdate ==
    /\ sim.pc = "update"
    /\ LET e == Head(sim.sensor_values)
           todo == Pending(tag_mappings, Tail(sim.sensor_values))
       IN  /\ context' = UpdateSensor(tag_mappings, context, e[1], e[2])
           /\ lastWrite' = RecordUpdate(lastWrite, tag_mappings, e[1], e[2])
           /\ sim' = IF todo = <<>> THEN NextStep(sim)
                     ELSE [sim EXCEPT !.sensor_values = todo]
    /\ UNCHANGED <<otherVars, pc, tag_mappings, ir_data, loadHist, last, attackVars>>

PlantNext ==
    \/ RunScenario
    \/ StartReturn
    \/ BeginStep
    \/ CheckStep
    \/ PatternStep
    \/ WakeStep
    \/ FinallyStep
    \/ DeleteStep
    \/ Advance
    \/ SimRead
    \/ SimPhysics
    \/ SimUpdate

SpecPlant == PlantInit /\ [][PlantNext]_vars

----------------------------------------------------------------------------
(* SpecTimed: one attack of each kind, started once and never stopped, on a   *)
(* clock that stands still while a thread has a statement to run: the         *)
(* statements take no time, time.sleep(d) returns after exactly d.            *)

\* the attacks started: every kind, on the bottle plant, for TimedDuration
TimedConfigs ==
    { [attack_type |-> kind, target_plant |-> "bottle", duration |-> TimedDuration,
       intensity |-> 100] : kind \in AttackTypes }

TimedInit == BottleBridge /\ NoAttacks

\* the one call of start_attack
TimedStart ==
    /\ mainpc.at = "idle"
    /\ ncalls = 0
    /\ \E config \in TimedConfigs : StartCall(config, "none")

\* the thread has ended, or sleeps until later than now
Waiting(wk, t) ==
    \/ wk.pc \in {"done", "crashed"}
    \/ wk.pc \in {"sleep", "nap"} /\ wk.wake > t

\* time passes when every thread waits for it and some thread still runs
TimedAdvance ==
    /\ mainpc.at = "idle"
    /\ \A w \in DOMAIN workers : Waiting(workers[w], now)
    /\ \E w \in DOMAIN workers : workers[w].pc \notin {"done", "crashed"}
    /\ now' = now + 1
    /\ UNCHANGED <<otherVars, sim, bridgeVars, loadHist, storeVars, active_attacks,
                   attack_threads, workers, mainpc, call, ncalls>>

TimedNext ==
    \/ TimedStart
    \/ StartReturn
    \/ BeginStep
    \/ CheckStep
    \/ PatternStep
    \/ WakeStep
    \/ NapStep
    \/ FinallyStep
    \/ DeleteStep
    \/ TimedAdvance

SpecTimed == TimedInit /\ [][TimedNext]_vars

----------------------------------------------------------------------------
(* SpecList: the calling thread of tools/roundtrip_tests.py, which starts a    *)
(* sensor spoofing attack on the bottle plant, calls list_attacks and stops    *)
(* the attack; between its calls it may add and remove entries of the map      *)
(* list_attacks returned.  "listed" is that return value: the dict it refers   *)
(* to (a copy of its own, or the injector's active_attacks itself) and, for a  *)
(* copy, its entries.                                                          *)

\* _test_attack_injection: the config of the test, and one that ends by itself
\* within the horizon
ListConfigs ==
    { [attack_type |-> "sensor_spoofing", target_plant |-> "bottle", duration |-> d,
       intensity |-> 50] : d \in {1, 2 * TicksPerSecond} }

ListInit == BottleBridge /\ NoAttacks

\* the one start_attack of the test
ListStart ==
    /\ mainpc.at = "idle"
    /\ ncalls = 0
    /\ \E config \in ListConfigs : StartCall(config, "none")

ListStop ==
    /\ mainpc.at = "idle"
    /\ ncalls < ListCalls
    /\ \E attack_id \in ReturnedIds(workers) : StopCall(attack_id)

\* a list_attacks that hands out the dict of the injector
ListAttacksLive ==
    /\ mainpc.at = "idle"
    /\ listed' = [called |-> TRUE, ref |-> "active_attacks",
                  map |-> [i \in {} |-> NoConfig]]
    /\ UNCHANGED <<engine, sim, bridgeVars, loadHist, storeVars, attackVars>>

\* list_attacks: "return self.active_attacks.copy()"
ListAttacks ==
    /\ mainpc.at = "idle"
    /\ listed' = [called |-> TRUE, ref |-> "copy", map |-> active_attacks]
    /\ UNCHANGED <<engine, sim, bridgeVars, loadHist, storeVars, attackVars>>

\* the entries of the dict the caller holds
ReturnedMap == IF listed.ref = "copy" THEN listed.map ELSE active_attacks

\* an item assignment or a del on the dict the caller holds changes the
\* object the reference points to
Mutate(entries) ==
    IF listed.ref = "copy"
    THEN /\ listed' = [listed EXCEPT !.map = entries]
         /\ UNCHANGED active_attacks
    ELSE /\ active_attacks' = entries
         /\ UNCHANGED listed

\* the caller: returned[attack_id] = config
CallerAdd ==
    /\ mainpc.at = "idle"
    /\ listed.called
    /\ \E config \in ListConfigs : Mutate(Put(ReturnedMap, StrayId, config))
    /\ UNCHANGED <<engine, sim, bridgeVars, loadHist, storeVars, now, attack_threads, workers,
                   mainpc, call, ncalls>>

\* the caller: del returned[attack_id]
CallerRemove ==
    /\ mainpc.at = "idle"
    /\ listed.called
    /\ \E attack_id \in DOMAIN ReturnedMap : Mutate(Del(ReturnedMap, attack_id))
    /\ UNCHANGED <<engine, sim, bridgeVars, loadHist, storeVars, now, attack_threads, workers,
                   mainpc, call, ncalls>>

ListNext ==
    \/ ListStart
    \/ StartReturn
    \/ ListAttacks
    \/ CallerAdd
    \/ CallerRemove
    \/ ListStop
    \/ StopDelete
    \/ BeginStep
    \/ CheckStep
    \/ PatternStep
    \/ WakeStep
    \/ FinallyStep
    \/ DeleteStep
    \/ Advance

SpecList == ListInit /\ [][ListNext]_vars

----------------------------------------------------------------------------
(* SpecRefinery: an OilRefineryPhysics engine driven by update(dt, inputs)     *)
(* calls, as tools/roundtrip_tests.py drives it.  "engine" holds the engine's  *)
(* fields, the arguments of the last call and the dict it returned.            *)

RefineryActuators ==
    {"ACT_FEED_PUMP", "ACT_OUTLET_VALVE", "ACT_SEP_VALVE", "ACT_WASTE_VALVE"}

\* the timesteps of the calls: none, the plant's 0.02 s, 30 s and 200 s
RefineryDts == {0, 1, 1500, 10000}

\* the engine as constructed, or with tank_level and processing_phase assigned
\* by the caller before the first update
RefineryInit ==
    /\ BottleStore
    /\ NoAttacks
    /\ \E level \in {20000, 95000}, phase \in 0..3 :
         engine = [plant |-> "refinery",
                   first   |-> [NewRefinery EXCEPT !.tank_level = level,
                                                   !.processing_phase = phase],
                   physics |-> [NewRefinery EXCEPT !.tank_level = level,
                                                   !.processing_phase = phase],
                   n |-> 0, dt |-> 0, inputs |-> NoValues, out |-> NoValues]

\* an update of an engine that leaves Idle for Filling when the feed pump is on
RefineryStepStarts ==
    /\ engine.plant = "refinery"
    /\ engine.n < RefineryUpdates
    /\ \E dt \in RefineryDts, inputs \in [RefineryActuators -> PyBools] :
         LET started == IF /\ engine.physics.processing_phase = 0
                           /\ Truthy(inputs["ACT_FEED_PUMP"])
                        THEN [engine.physics EXCEPT !.processing_phase = 1]
                        ELSE engine.physics
             ph == RefineryUpdate(started, dt, inputs) IN
         engine' = [engine EXCEPT !.physics = ph, !.n = @ + 1, !.dt = dt,
                                  !.inputs = inputs, !.out = RefinerySensors(ph)]
    /\ UNCHANGED <<listed, sim, bridgeVars, loadHist, storeVars, attackVars>>

\* physics.update(dt, inputs)
RefineryStep ==
    /\ engine.plant = "refinery"
    /\ engine.n < RefineryUpdates
    /\ \E dt \in RefineryDts, inputs \in [RefineryActuators -> PyBools] :
         LET ph == RefineryUpdate(engine.physics, dt, inputs) IN
         engine' = [engine EXCEPT !.physics = ph, !.n = @ + 1, !.dt = dt,
                                  !.inputs = inputs, !.out = RefinerySensors(ph)]
    /\ UNCHANGED <<listed, sim, bridgeVars, loadHist, storeVars, attackVars>>

RefineryNext == RefineryStep

SpecRefinery == RefineryInit /\ [][RefineryNext]_vars

----------------------------------------------------------------------------
(* SpecBottle: a BottleFillingPhysics engine driven by update(0.02, inputs)    *)
(* calls with the inputs held, as tools/roundtrip_tests.py drives it.          *)
(* "engine" holds the engine's fields as they were before the first call and   *)
(* as they are, the inputs, the number of calls, the dict the last call        *)
(* returned, and "held": the number of the latest calls in a row that had the  *)
(* nozzle on and the bottle position inside [130, 200] before and after.       *)

InBand(position) == 26000 <= position /\ position <= 40000

\* the engine before the first update: as constructed; with the bottle put at
\* position 130 by the caller; after an update has seen it at 130; at the end
\* of the conveyor, at 600
BottleStarts ==
    { NewPhysics,
      [NewPhysics EXCEPT !.bottle_position = 26000],
      [NewPhysics EXCEPT !.bottle_position = 26000, !.bottle_in_position = TRUE],
      [NewPhysics EXCEPT !.bottle_position = 120000] }

BottleInit ==
    /\ BottleStore
    /\ NoAttacks
    /\ \E ph \in BottleStarts, inputs \in [{"ACT_MOTOR", "ACT_NOZZLE"} -> PyBools] :
         engine = [plant |-> "bottle", first |-> ph, physics |-> ph, inputs |-> inputs,
                   n |-> 0, held |-> 0, out |-> <<>>]

\* physics.update(0.02, inputs)
BottleStep ==
    /\ engine.plant = "bottle"
    /\ engine.n < BottleUpdates
    /\ LET ph == BottleUpdate(engine.physics, engine.inputs) IN
       engine' = [engine EXCEPT
                    !.physics = ph, !.n = @ + 1, !.out = SensorValues(ph),
                    !.held = IF /\ Truthy(engine.inputs["ACT_NOZZLE"])
                                /\ InBand(engine.physics.bottle_position)
                                /\ InBand(ph.bottle_position)
                             THEN @ + 1 ELSE 0]
    /\ UNCHANGED <<listed, sim, bridgeVars, loadHist, storeVars, attackVars>>

BottleNext == BottleStep

SpecBottle == BottleInit /\ [][BottleNext]_vars

----------------------------------------------------------------------------
(* SpecTwins: two engine instances of one plant, constructed alike and driven  *)
(* by the same update(dt, inputs) calls.  An instance is the engine's fields,  *)
(* its PhysicsState and the dict its last update returned; "engine" holds the  *)
(* two instances.                                                              *)

\* PhysicsState(): time = 0.0, dt = 0.02
NewState == [time |-> 0, dt |-> 1]

\* the engines before the first update: as constructed, or with fields
\* assigned by the caller
TwinStarts(plant) ==
    IF plant = "bottle" THEN BottleStarts
    ELSE { [NewRefinery EXCEPT !.tank_level = level, !.processing_phase = phase] :
             level \in {20000, 95000}, phase \in 0..3 }

\* the input maps of the calls
TwinInputs(plant) ==
    IF plant = "bottle" THEN [{"ACT_MOTOR", "ACT_NOZZLE"} -> PyBools]
    ELSE [RefineryActuators -> PyBools]

\* an update that measures its timestep on the wall clock
EngineUpdateJitter(plant, e, dt, inputs) ==
    { LET ph == IF plant = "bottle" THEN BottleUpdateDt(e.physics, dt + jitter, inputs)
                ELSE RefineryUpdate(e.physics, dt + jitter, inputs)
      IN  [physics |-> ph,
           state   |-> [time |-> e.state.time + dt + jitter, dt |-> dt + jitter],
           out     |-> IF plant = "bottle" THEN SensorValues(ph)
                       ELSE RefinerySensors(ph)] : jitter \in {0, 1} }

\* update(dt, inputs) of either engine: the instances the call can end in.  It
\* reads self, dt and inputs only: no clock, no random draw, no module state.
EngineUpdate(plant, e, dt, inputs) ==
    { LET ph == IF plant = "bottle" THEN BottleUpdateDt(e.physics, dt, inputs)
                ELSE RefineryUpdate(e.physics, dt, inputs)
      IN  [physics |-> ph,
           state   |-> [time |-> e.state.time + dt, dt |-> dt],
           out     |-> IF plant = "bottle" THEN SensorValues(ph)
                       ELSE RefinerySensors(ph)] }

TwinInit ==
    /\ BottleStore
    /\ NoAttacks
    /\ \E plant \in {"bottle", "refinery"} :
         \E ph \in TwinStarts(plant) :
            LET e == [physics |-> ph, state |-> NewState, out |-> NoValues] IN
            engine = [plant |-> "twins", kind |-> plant, a |-> e, b |-> e, n |-> 0]

\* a.update(dt, inputs); b.update(dt, inputs)
TwinStep ==
    /\ engine.plant = "twins"
    /\ engine.n < TwinUpdates
    /\ \E dt \in RefineryDts, inputs \in TwinInputs(engine.kind) :
         \E ra \in EngineUpdate(engine.kind, engine.a, dt, inputs),
            rb \in EngineUpdate(engine.kind, engine.b, dt, inputs) :
            engine' = [engine EXCEPT !.a = ra, !.b = rb, !.n = @ + 1]
    /\ UNCHANGED <<listed, sim, bridgeVars, loadHist, storeVars, attackVars>>

TwinNext == TwinStep

SpecTwins == TwinInit /\ [][TwinNext]_vars

----------------------------------------------------------------------------
(* SpecRoundTrip: a test of tools/roundtrip_tests.py on a bridge and an engine *)
(* as RoundTripTester.__init__ constructs them: the store calls that set the   *)
(* test up, then the cycles of get_actuator_values, physics.update(0.02, ...)  *)
(* and update_sensors.  A step is one store access or one update.  "engine"    *)
(* holds the test's position, its locals and the engine's fields.              *)

TestRows(plant) == IF plant = "bottle" THEN BottleRows ELSE RefineryRows

\* the store calls before the loop of a test
TestSetup(test, plant) ==
    IF test = "basic_physics"
    THEN IF plant = "bottle"
         THEN << Set("CMD_RUN", PyTrue), Set("ACT_MOTOR", PyTrue),
                 Set("ACT_NOZZLE", PyFalse) >>
         ELSE << Set("ACT_FEED_PUMP", PyTrue), Set("ACT_OUTLET_VALVE", PyFalse) >>
    ELSE IF plant = "bottle"
         THEN << Upd("SENSOR_LIMIT_SWITCH", PyTrue), Upd("SENSOR_LEVEL_SENSOR", PyTrue),
                 Set("ACT_NOZZLE", PyTrue) >>
         ELSE << Set("ACT_FEED_PUMP", PyTrue), Upd("SENSOR_TANK_LEVEL", PyInt(95)) >>

\* "for i in range(10)", "for i in range(5)"
TestCycles(test, plant) ==
    IF test = "alarm_conditions" /\ plant = "bottle" THEN 5 ELSE 10

\* get_actuator_values: the Actuator tags in the order of the map's rows
RowActuators(rows) ==
    SelectSeq([i \in 1..Len(rows) |-> rows[i].name],
              LAMBDA n : \E i \in 1..Len(rows) :
                            rows[i].name = n /\ rows[i].role = "Actuator")

RoundTripInit ==
    /\ \E plant \in {"bottle", "refinery"}, test \in {"basic_physics", "alarm_conditions"} :
         /\ StoreOf(TestRows(plant))
         /\ engine = [plant |-> "test", kind |-> plant, test |-> test, pc |-> "setup",
                      k |-> 0, cycles |-> 0,
                      physics |-> IF plant = "bottle" THEN NewPhysics ELSE NewRefinery,
                      actuator_values |-> NoValues, todo |-> <<>>, sensor_values |-> <<>>]
    /\ NoAttacks

\* the loop's next pass, or the check after the last one
NextCycle(e) ==
    [e EXCEPT !.pc = IF e.cycles + 1 = TestCycles(e.test, e.kind) THEN "done" ELSE "read",
              !.k = 0, !.cycles = @ + 1, !.todo = <<>>]

\* one set_tag_value or update_sensors call of the test's set-up
TestSet ==
    /\ engine.plant = "test"
    /\ engine.pc = "setup"
    /\ LET script == TestSetup(engine.test, engine.kind)
           o == script[engine.k + 1]
           r == ApplyOp(tag_mappings, context, o)
       IN  /\ context' = r.ctx
           /\ lastWrite' = RecordOp(lastWrite, tag_mappings, o)
           /\ engine' = IF r.result # "ok" THEN [engine EXCEPT !.pc = "raised"]
                        ELSE IF engine.k + 1 = Len(script)
                        THEN [engine EXCEPT !.pc = "read", !.k = 0]
                        ELSE [engine EXCEPT !.k = @ + 1]
    /\ UNCHANGED <<listed, sim, pc, tag_mappings, ir_data, loadHist, last, attackVars>>

\* get_actuator_values: one pass of its loop, a get_tag_value
TestRead ==
    /\ engine.plant = "test"
    /\ engine.pc = "read"
    /\ engine.k < Len(RowActuators(TestRows(engine.kind)))
    /\ LET tag_name == RowActuators(TestRows(engine.kind))[engine.k + 1]
           r == GetTagValue(tag_mappings, context, tag_name)
       IN  engine' = IF r.result = "ok"
                     THEN [engine EXCEPT !.k = @ + 1,
                                         !.actuator_values =
                                            IF engine.k = 0 THEN Put(NoValues, tag_name, r.ret)
                                            ELSE Put(@, tag_name, r.ret)]
                     ELSE [engine EXCEPT !.pc = "raised"]
    /\ UNCHANGED <<listed, sim, bridgeVars, loadHist, storeVars, attackVars>>

\* sensor_values = self.physics.update(0.02, actuator_values)
TestPhysics ==
    /\ engine.plant = "test"
    /\ engine.pc = "read"
    /\ engine.k = Len(RowActuators(TestRows(engine.kind)))
    /\ LET ph == IF engine.kind = "bottle"
                 THEN BottleUpdate(engine.physics, engine.actuator_values)
                 ELSE RefineryUpdate(engine.physics, 1, engine.actuator_values)
           out == IF engine.kind = "bottle" THEN SensorValues(ph)
                  ELSE RefinerySensorValues(ph)
           todo == Pending(tag_mappings, out)
       IN  engine' = IF todo = <<>>
                     THEN NextCycle([engine EXCEPT !.physics = ph, !.sensor_values = out])
                     ELSE [engine EXCEPT !.pc = "update", !.physics = ph,
                                         !.sensor_values = out, !.todo = todo]
    /\ UNCHANGED <<listed, sim, bridgeVars, loadHist, storeVars, attackVars>>

\* update_sensors(sensor_values): one pass of its loop on a name of the registry
TestUpdate ==
    /\ engine.plant = "test"
    /\ engine.pc = "update"
    /\ LET e == Head(engine.todo)
           todo == Pending(tag_mappings, Tail(engine.todo))
       IN  /\ context' = UpdateSensor(tag_mappings, context, e[1], e[2])
           /\ lastWrite' = RecordUpdate(lastWrite, tag_mappings, e[1], e[2])
           /\ engine' = IF todo = <<>> THEN NextCycle(engine)
                        ELSE [engine EXCEPT !.todo = todo]
    /\ UNCHANGED <<listed, sim, pc, tag_mappings, ir_data, loadHist, last, attackVars>>

RoundTripNext == TestSet \/ TestRead \/ TestPhysics \/ TestUpdate

SpecRoundTrip == RoundTripInit /\ [][RoundTripNext]_vars

----------------------------------------------------------------------------
(* SpecConveyor: a BottleFillingPhysics engine as constructed, driven by       *)
(* update(dt, inputs) calls whose timestep and inputs vary from call to call.  *)
(* "engine" holds the engine's fields, the number of calls made, the last      *)
(* call's arguments and the dict it returned.                                  *)

\* the timesteps of the calls: none, the plant's 0.02 s, 30 s, the 520 s that
\* carry the bottle from 0 to 130, and 2000 s
BottleDts == {0, 1, 1500, 26000, 100000}

ConveyorInit ==
    /\ BottleStore
    /\ NoAttacks
    /\ engine = [plant |-> "conveyor", physics |-> NewPhysics, n |-> 0, dt |-> 0,
                 inputs |-> NoValues, out |-> <<>>]

\* physics.update(dt, inputs)
ConveyorStep ==
    /\ engine.plant = "conveyor"
    /\ engine.n < ConveyorUpdates
    /\ \E dt \in BottleDts, inputs \in [{"ACT_MOTOR", "ACT_NOZZLE"} -> PyBools] :
         LET ph == BottleUpdateDt(engine.physics, dt, inputs) IN
         engine' = [engine EXCEPT !.physics = ph, !.n = @ + 1, !.dt = dt,
                                  !.inputs = inputs, !.out = SensorValues(ph)]
    /\ UNCHANGED <<listed, sim, bridgeVars, loadHist, storeVars, attackVars>>

ConveyorNext == ConveyorStep

SpecConveyor == ConveyorInit /\ [][ConveyorNext]_vars

----------------------------------------------------------------------------
(* SpecPair: two runs of the bottle plant's simulation loop, each on a bridge  *)
(* and an engine of its own.  The two runs receive the same set_tag_value      *)
(* calls on the actuator tags at the same points of the loop; update_sensors   *)
(* calls on the sensor tags, as the spoofing pattern makes them, reach one run *)
(* or the other.  "engine" holds the two runs and the position of the loop.    *)

\* a run: the bridge's context, the locals of _simulation_step and the engine
NewRun(ph) ==
    [ctx |-> CreateModbusContext, actuator_values |-> NoValues, physics |-> ph,
     out |-> <<>>]

PairInit ==
    /\ BottleStore
    /\ NoAttacks
    /\ \E ph \in BottleStarts :
         engine = [plant |-> "pair", pc |-> "read", n |-> 0,
                   a |-> NewRun(ph), b |-> NewRun(ph)]

\* set_tag_value(tag, value) on an actuator tag, in both runs
PairWrite ==
    /\ engine.plant = "pair"
    /\ \E t \in {"ACT_MOTOR", "ACT_NOZZLE"}, v \in PyBools :
         engine' = [engine EXCEPT
                      !.a.ctx = SetTagValue(tag_mappings, @, t, v).ctx,
                      !.b.ctx = SetTagValue(tag_mappings, @, t, v).ctx]
    /\ UNCHANGED <<listed, sim, bridgeVars, loadHist, storeVars, attackVars>>

\* update_sensors({tag: value}) on a sensor tag, in one run
PairSpoof ==
    /\ engine.plant = "pair"
    /\ \E t \in SensorNames, v \in PyBools :
         \/ engine' = [engine EXCEPT !.a.ctx = UpdateSensor(tag_mappings, @, t, v)]
         \/ engine' = [engine EXCEPT !.b.ctx = UpdateSensor(tag_mappings, @, t, v)]
    /\ UNCHANGED <<listed, sim, bridgeVars, loadHist, storeVars, attackVars>>

\* get_actuator_values(): the tags of role Actuator and their cells
ActuatorValues(ctx) ==
    [t \in {ActuatorTags(tag_mappings)[i] : i \in DOMAIN ActuatorTags(tag_mappings)} |->
        GetTagValue(tag_mappings, ctx, t).ret]

\* actuator_values = self.modbus_bridge.get_actuator_values()
PairRead ==
    /\ engine.plant = "pair"
    /\ engine.pc = "read"
    /\ engine.n < PairSteps
    /\ engine' = [engine EXCEPT !.pc = "physics",
                                !.a.actuator_values = ActuatorValues(engine.a.ctx),
                                !.b.actuator_values = ActuatorValues(engine.b.ctx)]
    /\ UNCHANGED <<listed, sim, bridgeVars, loadHist, storeVars, attackVars>>

\* a step whose engine fills the bottle when the store's limit switch is on
PairPhysicsGated ==
    /\ engine.plant = "pair"
    /\ engine.pc = "physics"
    /\ LET Gated(run) ==
             LET seen == [run.physics EXCEPT !.bottle_in_position =
                            Truthy(GetTagValue(tag_mappings, run.ctx,
                                               "SENSOR_LIMIT_SWITCH").ret)]
                 ph   == BottleUpdate(seen, run.actuator_values)
             IN  [run EXCEPT !.physics = ph, !.out = SensorValues(ph)]
       IN  engine' = [engine EXCEPT !.pc = "update", !.a = Gated(@), !.b = Gated(@)]
    /\ UNCHANGED <<listed, sim, bridgeVars, loadHist, storeVars, attackVars>>

\* sensor_values = self.physics.update(self.dt, actuator_values)
PairPhysics ==
    /\ engine.plant = "pair"
    /\ engine.pc = "physics"
    /\ LET pha == BottleUpdate(engine.a.physics, engine.a.actuator_values)
           phb == BottleUpdate(engine.b.physics, engine.b.actuator_values)
       IN  engine' = [engine EXCEPT !.pc = "update",
                                    !.a.physics = pha, !.a.out = SensorValues(pha),
                                    !.b.physics = phb, !.b.out = SensorValues(phb)]
    /\ UNCHANGED <<listed, sim, bridgeVars, loadHist, storeVars, attackVars>>

\* self.modbus_bridge.update_sensors(sensor_values)
PairUpdate ==
    /\ engine.plant = "pair"
    /\ engine.pc = "update"
    /\ engine' = [engine EXCEPT
                    !.pc = "read", !.n = @ + 1,
                    !.a.ctx = UpdateSensors(tag_mappings, @, engine.a.out),
                    !.b.ctx = UpdateSensors(tag_mappings, @, engine.b.out)]
    /\ UNCHANGED <<listed, sim, bridgeVars, loadHist, storeVars, attackVars>>

PairNext ==
    \/ PairWrite
    \/ PairSpoof
    \/ PairRead
    \/ PairPhysics
    \/ PairUpdate

SpecPair == PairInit /\ [][PairNext]_vars

----------------------------------------------------------------------------
(* Claims on the construction of the bridge (SpecLoad) *)

\* C1: a map in which a SENSOR_*, ACT_* or CMD_* row declares a role other than
\* Sensor, Actuator or Command never gets a register context: the load aborts
\* first, with or without IR data.
C1_RolePolicyFailsFast == rowViolation => (context = NoContext /\ pc # "ready")

\* C2: a map in which two rows declare the same (table, address) pair does not
\* load, so no two tags of a loaded registry resolve to the same cell.
C2_AddressesUnique ==
    pc = "ready" =>
        /\ ~rowsCollide
        /\ \A t, u \in DOMAIN tag_mappings :
              t # u => CellOf(tag_mappings[t]) # CellOf(tag_mappings[u])

\* C29: when every row of the map complies with the role policy, the load ends
\* with a constructed bridge whatever the IR file holds, and its registry and
\* store are those of a load without an IR file: the registry read from the
\* rows and four zeroed blocks.
C29_CrossCheckNeverFatal ==
    [][ (pc = "load" /\ pc' # "load" /\ ~rowViolation)
            => /\ pc' = "ready"
               /\ tag_mappings' = tag_mappings
               /\ context' = CreateModbusContext ]_vars

\* a bridge constructed with a tag of the IR missing from the map and a tag
\* of the map missing from the IR
C29_Witness ==
    /\ pc = "ready"
    /\ ~rowViolation
    /\ \E t \in ir_data.tags : t \notin DOMAIN tag_mappings
    /\ \E t \in DOMAIN tag_mappings : t \notin ir_data.tags
    /\ context = CreateModbusContext

----------------------------------------------------------------------------
(* Claims on the accessors (SpecStore) *)

Registered(tag_name, tables) ==
    tag_name \in DOMAIN tag_mappings /\ tag_mappings[tag_name].table \in tables

\* C3: a write to a registered Coil or HoldingRegister tag succeeds, and every
\* read of a Coil or HoldingRegister tag returns the value of the most recent
\* write to its cell.
C3_WriteReadRoundTrip ==
    /\ (last.op = "set" /\ Registered(last.args[1][1], {"COIL", "HR"}))
          => last.result = "ok"
    /\ \A t \in DOMAIN tag_mappings :
          (/\ tag_mappings[t].table \in {"COIL", "HR"}
           /\ CellOf(tag_mappings[t]) \in DOMAIN lastWrite
           /\ lastWrite[CellOf(tag_mappings[t])] # Undetermined)
          => GetTagValue(tag_mappings, context, t)
                = Returned(lastWrite[CellOf(tag_mappings[t])])

\* a Coil or HoldingRegister tag was written and then read
C3_Witness ==
    /\ last.op = "get"
    /\ Registered(last.args[1][1], {"COIL", "HR"})
    /\ CellOf(tag_mappings[last.args[1][1]]) \in DOMAIN lastWrite
    /\ last.result = "ok"
    /\ last.ret = PyTrue

\* C4: a write to a registered Discrete-Input or Input-Register tag fails with
\* "Cannot write to table" and changes no cell; update_sensors({t: v}) on such a
\* tag is followed by read(t) = v, and so is every later read until the next
\* write to the cell.
C4_SensorWriteBypass ==
    [][ /\ (last'.op = "set" /\ Registered(last'.args[1][1], {"DI", "IR"}))
            => (last'.result = "Cannot write to table" /\ context' = context)
        /\ (/\ last'.op = "update"
            /\ Len(last'.args) = 1
            /\ Registered(last'.args[1][1], {"DI", "IR"}))
            => (/\ last'.result = "ok"
                /\ GetTagValue(tag_mappings', context', last'.args[1][1])
                      = Returned(last'.args[1][2]))
        /\ (/\ last'.op = "get"
            /\ Registered(last'.args[1][1], {"DI", "IR"})
            /\ CellOf(tag_mappings[last'.args[1][1]]) \in DOMAIN lastWrite)
            => (/\ last'.result = "ok"
                /\ last'.ret = lastWrite[CellOf(tag_mappings[last'.args[1][1]])])
      ]_vars

\* a sensor cell that update_sensors has set is still set after a refused write
C4_Witness ==
    /\ last.op = "set"
    /\ Registered(last.args[1][1], {"DI", "IR"})
    /\ last.result = "Cannot write to table"
    /\ GetTagValue(tag_mappings, context, last.args[1][1]) = Returned(PyInt(MaxInt))

\* C5: read and write of a name that is not in the registry raise "Unknown tag"
\* and change no cell of the four tables.
C5_UnknownTag ==
    [][ (last'.op \in {"get", "set"} /\ last'.args[1][1] \notin DOMAIN tag_mappings)
            => (last'.result = "Unknown tag" /\ context' = context) ]_vars

\* an unknown name was written when the store already held written values
C5_Witness ==
    /\ last.op = "set"
    /\ last.args[1][1] \notin DOMAIN tag_mappings
    /\ last.result = "Unknown tag"
    /\ context # CreateModbusContext

\* C22: update_sensors writes any table: update_sensors({t: v}) on a registered
\* tag of any of the four tables is followed by read(t) = v.
C22_UpdateWritesAnyTable ==
    [][ (/\ last'.op = "update"
         /\ Len(last'.args) = 1
         /\ Registered(last'.args[1][1], Tables))
            => GetTagValue(tag_mappings', context', last'.args[1][1])
                  = Returned(last'.args[1][2]) ]_vars

\* C23: a store access that names an unregistered tag raises "Unknown tag",
\* and so does update_sensors when a key of its map is not registered.
C23_UnknownTagRaised ==
    [][ /\ (last'.op \in {"get", "set"} /\ last'.args[1][1] \notin DOMAIN tag_mappings)
            => last'.result = "Unknown tag"
        /\ (/\ last'.op = "update"
            /\ \E k \in DOMAIN last'.args : last'.args[k][1] \notin DOMAIN tag_mappings)
            => last'.result = "Unknown tag" ]_vars

\* C24: a write to a tag whose role is Sensor is refused and changes no cell,
\* whatever table the tag is declared in.
C24_SensorRoleNotWritable ==
    [][ (/\ last'.op = "set"
         /\ last'.args[1][1] \in DOMAIN tag_mappings
         /\ tag_mappings[last'.args[1][1]].role = "Sensor")
            => (last'.result # "ok" /\ context' = context) ]_vars

\* C25: on a constructed bridge a read of a registered tag returns a value, and
\* a write to a registered tag of role Actuator or Command succeeds.
C25_TagsAccessible ==
    [][ /\ (last'.op = "get" /\ last'.args[1][1] \in DOMAIN tag_mappings)
            => last'.result = "ok"
        /\ (/\ last'.op = "set"
            /\ last'.args[1][1] \in DOMAIN tag_mappings
            /\ tag_mappings[last'.args[1][1]].role \in {"Actuator", "Command"})
            => last'.result = "ok" ]_vars

----------------------------------------------------------------------------
(* Claims on the store under concurrent writers (SpecPlant) *)

\* C6: under every interleaving of the simulation loop's store accesses and
\* the attack workers' store accesses, a read of a tag returns the cell's
\* initial value or the whole value of the most recent write to the tag's
\* cell: the last writer wins and no read sees a value nobody wrote.
C6_LastWriterWins ==
    \A t \in DOMAIN tag_mappings :
        Expected(lastWrite, tag_mappings[t]) # Undetermined
            => GetTagValue(tag_mappings, context, t)
                  = Returned(Expected(lastWrite, tag_mappings[t]))

\* the loop is between its two sensor writes and a spoofing worker between its
\* two: the worker overwrote the limit switch the loop had just written, and
\* NeverStop has set the run command
C6_Witness ==
    /\ sim.pc = "update"
    /\ sim.sensor_values[1][1] = "SENSOR_LEVEL_SENSOR"
    /\ \E w \in DOMAIN workers :
          /\ workers[w].pc = "pattern"
          /\ workers[w].config.attack_type = "sensor_spoofing"
          /\ Len(workers[w].todo) = 1
    /\ Expected(lastWrite, tag_mappings["SENSOR_LIMIT_SWITCH"]) = PyTrue
    /\ GetTagValue(tag_mappings, context, "SENSOR_LIMIT_SWITCH") = Returned(PyTrue)
    /\ GetTagValue(tag_mappings, context, "CMD_RUN") = Returned(PyTrue)

----------------------------------------------------------------------------
(* Claims on the attack injector (SpecAttack) *)

\* C7: a worker whose attack stop_attack has removed from the active set leaves
\* its loop at its next loop test, whatever start_attack and stop_attack do in
\* between: it never begins another pass of its pattern.
C7_StoppedWorkerTerminates ==
    [][ \A w \in DOMAIN workers :
          (workers[w].cancelled /\ workers[w].pc = "check")
              => workers'[w].pc # "pattern" ]_vars

\* C8: start_attack whose id is in the active set is rejected as already
\* running, leaves the active set as it was and starts no worker; no call
\* replaces the entry of an attack that is active.
C8_DuplicateRejected ==
    [][ /\ (ncalls' = ncalls + 1 /\ call'.op = "start_attack"
                /\ call'.id \in DOMAIN active_attacks)
            => /\ call'.result = "already running"
               /\ mainpc'.at # "start_ret"
               /\ active_attacks' = active_attacks
               /\ workers' = workers
        /\ \A i \in DOMAIN active_attacks \cap DOMAIN active_attacks' :
              active_attacks'[i] = active_attacks[i] ]_vars

\* a start_attack was rejected while the attack of its id was active, its
\* worker running
C8_Witness ==
    /\ call.op = "start_attack"
    /\ call.result = "already running"
    /\ call.id \in DOMAIN active_attacks
    /\ \E w \in DOMAIN workers : workers[w].id = call.id /\ workers[w].pc = "pattern"
    /\ Len(workers) = 1

\* C9: the id a successful start_attack returns is the id of no attack started
\* before it, active or terminated.
C9_FreshId ==
    [][ (mainpc.at = "start_ret" /\ mainpc'.at = "idle")
            => \A w \in 1..(Len(workers) - 1) : workers[w].id # mainpc.id ]_vars

\* C10: stop_attack never raises: on an id that is not active, or that the
\* worker's own cleanup removes meanwhile, it reports a miss.
C10_StopNeverRaises == call.result # "KeyError"

\* the worker started for the attack that holds the id now: the last one of
\* the id
OwnWorker(ws, attack_id, w) ==
    /\ w \in DOMAIN ws
    /\ ws[w].id = attack_id
    /\ \A v \in DOMAIN ws : ws[v].id = attack_id => v <= w

\* C12: an id leaves the active set only by a stop_attack for it or by the
\* cleanup of the worker that was started for it (its duration over, or its
\* pattern raised); the termination of another worker never removes it.
C12_RemovedOnOwnAccount ==
    [][ \A i \in DOMAIN active_attacks \ DOMAIN active_attacks' :
          \/ mainpc.at = "stop_del" /\ mainpc.id = i /\ mainpc'.at = "idle"
          \/ \E w \in DOMAIN workers :
                /\ OwnWorker(workers, i, w)
                /\ workers[w].pc = "del"
                /\ workers'[w].pc = "done" ]_vars

\* C16: a tick of a NeverStop attack on the bottle plant completes: the
\* pattern's pass ends in the sleep of the loop and never in the except clause,
\* and at its end ACT_MOTOR reads true and SENSOR_LIMIT_SWITCH and
\* SENSOR_LEVEL_SENSOR, each written by the pass, read false.
C16_NeverStopTick ==
    [][ \A w \in DOMAIN workers :
          (/\ workers[w].pc = "pattern"
           /\ workers[w].config.attack_type = "never_stop"
           /\ workers[w].config.target_plant = "bottle")
              => /\ workers'[w].pc # "finally"
                 /\ workers'[w].pc = "sleep"
                       => /\ GetTagValue(tag_mappings, context', "ACT_MOTOR")
                                = Returned(PyTrue)
                          /\ GetTagValue(tag_mappings, context', "SENSOR_LIMIT_SWITCH")
                                = Returned(PyFalse)
                          /\ GetTagValue(tag_mappings, context', "SENSOR_LEVEL_SENSOR")
                                = Returned(PyFalse) ]_vars

\* C32: a worker leaves the loop of _run_attack for one of three reasons: its
\* pattern raised (Failed), the duration of its attack has elapsed (Completed),
\* or its attack was stopped (Cancelled).
C32_Lifecycle ==
    [][ \A w \in DOMAIN workers :
          (workers[w].pc \in {"check", "pattern"} /\ workers'[w].pc = "finally")
              => \/ workers[w].pc = "pattern"
                 \/ now - workers[w].start_time >= workers[w].config.duration
                 \/ workers[w].cancelled ]_vars

----------------------------------------------------------------------------
(* Claims on the scenarios and on failing workers (SpecPlant) *)

\* C13: run_scenario(name) starts every config of the scenario and returns one
\* id per config, the ids pairwise distinct: it does not raise, and when it has
\* returned as many workers have been started as the scenario has configs,
\* under ids that differ.
C13_ScenarioStartsAll ==
    mainpc.scenario # "none" =>
        /\ mainpc.at # "raised"
        /\ (mainpc.at = "idle" /\ ncalls = Len(AttackScenarios[mainpc.scenario]))
              => /\ Len(workers) = Len(AttackScenarios[mainpc.scenario])
                 /\ \A v, w \in DOMAIN workers : v # w => workers[v].id # workers[w].id

C34_TickLeavesActuators ==
    [][ sim' # sim => (context'.co = context.co /\ context'.hr = context.hr) ]_vars

\* the motor coil an override worker forced on was read on by both steps of the
\* loop, which moved the bottle twice and wrote the sensors, and is still on
C34_Witness ==
    /\ sim.steps = MaxSteps
    /\ sim.physics.bottle_position = MaxSteps
    /\ GetTagValue(tag_mappings, context, "ACT_MOTOR") = Returned(PyTrue)
    /\ CellOf(tag_mappings["SENSOR_LIMIT_SWITCH"]) \in DOMAIN lastWrite
    /\ \E w \in DOMAIN workers : workers[w].id[1] = "actuator_override"

\* C38: when a step of the simulation loop completes, each sensor tag the
\* engine emits reads as the engine's output of that step, whatever a worker
\* wrote to it before.
C38_TickOverwritesSpoof ==
    [][ sim'.steps = sim.steps + 1
          => /\ GetTagValue(tag_mappings, context', "SENSOR_LIMIT_SWITCH").ret
                   = PyBool(sim'.physics.bottle_in_position)
             /\ GetTagValue(tag_mappings, context', "SENSOR_LEVEL_SENSOR").ret
                   = PyBool(sim'.physics.bottle_filled) ]_vars

----------------------------------------------------------------------------
(* Claims on list_attacks (SpecList) *)

\* C15: the map list_attacks returned is a snapshot.  No step changes both the
\* map the caller holds and the injector's active set: an entry added to or
\* removed from the returned map leaves active_attacks as it was, and a step of
\* the injector (a start, a stop, a worker's cleanup, the clock) leaves the
\* returned map as it was.
C15_Snapshot ==
    [][ (listed.called /\ listed'.called) =>
          /\ ReturnedMap' # ReturnedMap => active_attacks' = active_attacks
          /\ (workers' # workers \/ mainpc' # mainpc \/ call' # call \/ now' # now)
                => ReturnedMap' = ReturnedMap ]_vars

\* the caller holds a map with an entry it added and an entry of an attack
\* that has been stopped since; the active set has neither
C15_Witness ==
    /\ listed.called
    /\ StrayId \in DOMAIN ReturnedMap
    /\ StrayId \notin DOMAIN active_attacks
    /\ call.result = "stopped"
    /\ call.id \in DOMAIN ReturnedMap
    /\ call.id \notin DOMAIN active_attacks

----------------------------------------------------------------------------
(* Claims on the random patterns (SpecTimed) *)

\* C17: in a tick of RandomNoise, the pass of the loop over a registered tag,
\* whatever its table, leaves the attack running (the worker goes on with the
\* tick and does not enter the except clause), and when it changes the store,
\* the tag then reads a value of its declared type.
C17_NoiseOverwritesAnyTable ==
    [][ \A w \in DOMAIN workers :
          (/\ workers[w].pc = "pattern"
           /\ workers[w].todo # <<>>
           /\ Head(workers[w].todo).op = "noise")
              => LET tag == Head(workers[w].todo).tag IN
                 /\ workers'[w].pc = "pattern"
                 /\ context' # context
                       => GetTagValue(tag_mappings, context', tag).ret.ty
                             = (IF tag_mappings[tag].type = "BOOL" THEN "bool" ELSE "int")
      ]_vars

----------------------------------------------------------------------------
(* Claims on the refinery physics (SpecRefinery) *)

\* the tank level lies between empty and the capacity
LevelInRange(ph) == 0 <= ph.tank_level /\ ph.tank_level <= ph.tank_capacity

\* C30: an update with a timestep of zero or more, whatever the actuator
\* inputs, made on an engine whose tank level lies between 0 and the capacity,
\* leaves the tank level between 0 and the capacity.
C30_TankLevelInRange ==
    [][ (/\ engine.plant = "refinery"
         /\ engine'.n = engine.n + 1
         /\ engine'.dt >= 0
         /\ LevelInRange(engine.physics))
            => LevelInRange(engine'.physics) ]_vars

\* the first update emptied more than the tank held: nothing was processed,
\* the waste valve was open for 200 s and the tank is at 0
C30_Witness ==
    /\ engine.plant = "refinery"
    /\ engine.n = 1
    /\ engine.dt = 10000
    /\ Truthy(engine.inputs["ACT_WASTE_VALVE"])
    /\ engine.physics.tank_level = 0
    /\ engine.physics.oil_processed = 0
    /\ engine.physics.processing_phase = 0

\* C18: an update with the feed pump on and k_feed * dt above 5 litres, on an
\* idle engine with tank level 95 and capacity 100, ends with the tank level at
\* the capacity and the cumulative spill raised by the excess over it.
C18_OverflowSpills ==
    [][ (/\ engine.physics.tank_level = 95000
         /\ engine.physics.tank_capacity = 100000
         /\ engine.physics.processing_phase = 0
         /\ engine'.n = engine.n + 1
         /\ Truthy(engine'.inputs["ACT_FEED_PUMP"])
         /\ 4 * engine'.dt > 5000)
            => /\ engine'.physics.tank_level = 100000
               /\ engine'.physics.oil_spilled > 0
               /\ engine'.physics.oil_spilled
                     = engine.physics.oil_spilled + (95000 + 4 * engine'.dt - 100000)
      ]_vars

----------------------------------------------------------------------------
(* Claims on the bottle physics (SpecBottle) *)

\* the engine started at position 130 with level 0 and has made 10 updates
\* with the motor on and the nozzle off
TenMotorTicks ==
    /\ engine.first.bottle_position = 26000
    /\ engine.first.bottle_level = 0
    /\ Truthy(engine.inputs["ACT_MOTOR"])
    /\ ~Truthy(engine.inputs["ACT_NOZZLE"])
    /\ engine.n = 10

\* C19 as stated: after the 10 updates the position is 130.5 and the level 0.
C19_PositionAsStated ==
    TenMotorTicks => /\ engine.physics.bottle_position = 26100
                     /\ engine.physics.bottle_level = 0

\* C19: after the 10 updates the position is 130 + 10 * 0.25 * 0.02 = 130.05
\* and the level 0.
C19_PositionAfterTenTicks ==
    TenMotorTicks => /\ engine.physics.bottle_position = 26000 + 10
                     /\ engine.physics.bottle_level = 0
                     /\ engine.out[4] = <<"bottle_position", PyFloat(26010)>>

C19_Witness ==
    /\ TenMotorTicks
    /\ ~engine.first.bottle_in_position
    /\ engine.physics.bottle_in_position

\* C20: with the nozzle on and the position inside [130, 200] for N updates in
\* a row, SENSOR_LEVEL_SENSOR is emitted true as soon as k_pump * dt * N
\* reaches 0.8, and at every later one of these updates.
C20_FilledAfterEnoughTicks ==
    (engine.held > 0 /\ 100 * engine.held >= 40000)
        => engine.out[2] = <<"SENSOR_LEVEL_SENSOR", PyTrue>>

----------------------------------------------------------------------------
(* Claims on the bottle engine under varying calls (SpecConveyor) *)

\* C31: after every update made on the engine as constructed, whatever the
\* motor and nozzle inputs and the timesteps of the calls, the bottle level
\* lies between 0 and 1.
C31_BottleLevelInRange ==
    engine.plant = "conveyor"
        => (0 <= engine.physics.bottle_level /\ engine.physics.bottle_level <= 50000)

\* the value of a key in the dict the last update of the engine returned
OutValue(key) ==
    LET i == CHOOSE i \in DOMAIN engine.out : engine.out[i][1] = key
    IN  engine.out[i][2]

\* C37: in every dict the bottle engine returns, SENSOR_LEVEL_SENSOR is true
\* exactly when the returned bottle_level is at least 0.8, and
\* SENSOR_LIMIT_SWITCH is true exactly when the returned bottle_position lies
\* in [130, 200]; the call that recycles the bottle included.
C37_BooleansAgree ==
    (engine.plant = "conveyor" /\ engine.n > 0)
        => /\ Truthy(OutValue("SENSOR_LEVEL_SENSOR"))
                <=> OutValue("bottle_level").n >= 40000
           /\ Truthy(OutValue("SENSOR_LIMIT_SWITCH"))
                <=> InBand(OutValue("bottle_position").n)

----------------------------------------------------------------------------
(* Claims on two runs of the simulation loop (SpecPair) *)

----------------------------------------------------------------------------
(* Claims on the two engines together (SpecTwins) *)

----------------------------------------------------------------------------
(* Claims on the round-trip tests (SpecRoundTrip) *)

\* the value of a key in the dict the last update returned
Emitted(key) ==
    LET i == CHOOSE i \in DOMAIN engine.sensor_values : engine.sensor_values[i][1] = key
    IN  engine.sensor_values[i][2]

Finished(test, plant) ==
    /\ engine.plant = "test"
    /\ engine.test = test
    /\ engine.kind = plant
    /\ engine.pc = "done"

\* C26: after the 10 cycles of the basic physics test on the bottle plant the
\* emitted bottle_position is above 130.
C26_BottleMoved ==
    Finished("basic_physics", "bottle") => Emitted("bottle_position").n > 26000

\* C27: after the 10 cycles of the basic physics test on the refinery the
\* emitted SENSOR_TANK_LEVEL is above 20.
C27_TankLevelRose ==
    Finished("basic_physics", "refinery") => Emitted("SENSOR_TANK_LEVEL").n > 20

\* C28: after the 10 cycles of the alarm test on the refinery, with the feed
\* pump on and the SENSOR_TANK_LEVEL cell at 95, the engine's oil_spilled is
\* above 0.
C28_SpillAlarm ==
    Finished("alarm_conditions", "refinery")
        => (engine.physics.oil_spilled > 0 /\ Emitted("oil_spilled").n > 0)

\* C33: while the only attack started is a timing attack, and after it has
\* ended, every cell of the four tables holds the value it has with no attack
\* at all, and no write has been made.
C33_TimingWritesNothing ==
    (workers # <<>> /\ \A w \in DOMAIN workers : workers[w].id[1] = "timing_attack")
        => (context = CreateModbusContext /\ lastWrite = NoWrites)

\* the worker of a timing attack is in the delay of its pattern
C33_Witness ==
    \E w \in DOMAIN workers :
        /\ workers[w].id[1] = "timing_attack"
        /\ workers[w].pc = "nap"
        /\ workers[w].wake > now

\* C39: once a worker has ended and its attack is out of the active set, every
\* Coil and HoldingRegister tag reads as the last write applied to it: the
\* writes a pattern made before one of its writes raised are still there.
C39_WritesRemain ==
    \A w \in DOMAIN workers :
        (workers[w].pc \in {"done", "crashed"} /\ workers[w].id \notin DOMAIN active_attacks)
            => \A t \in DOMAIN tag_mappings :
                  tag_mappings[t].table \in {"COIL", "HR"}
                      => GetTagValue(tag_mappings, context, t).ret
                            = Expected(lastWrite, tag_mappings[t])

\* the never_stop worker wrote CMD_RUN, raised on SENSOR_LIMIT_SWITCH before it
\* reached ACT_MOTOR, and has ended; CMD_RUN reads true
C39_Witness ==
    \E w \in DOMAIN workers :
        /\ workers[w].id[1] = "never_stop"
        /\ workers[w].pc = "done"
        /\ workers[w].id \notin DOMAIN active_attacks
        /\ GetTagValue(tag_mappings, context, "CMD_RUN").ret = PyTrue
        /\ GetTagValue(tag_mappings, context, "ACT_MOTOR").ret = PyInt(0)

----------------------------------------------------------------------------
(* Claims on the workers' timing (SpecTimed) *)

\* C11: an attack of any kind that is started with duration D and never stopped
\* is out of the active set, removed by its own worker, no later than one
\* worker period after D has passed since its worker started: a worker still
\* in its loop for an active attack is never later than that.
C11_DurationBound ==
    \A w \in DOMAIN workers :
        (/\ workers[w].pc \in {"check", "pattern", "sleep", "nap"}
         /\ workers[w].id \in DOMAIN active_attacks)
            => now - workers[w].start_time <= workers[w].config.duration + 1

====
